---- MODULE Spec2Model ----
(***************************************************************************)
(* Model of the order router of the follow-trade system:                   *)
(*   BitgetTraderCCXT   (src/bitget_trader_ccxt.py)                        *)
(*   FollowTradeManager (src/follow_trade_manager.py)                      *)
(*   ConfigManager      (src/config_manager.py)                            *)
(*                                                                         *)
(* Units.  Quantities are Python floats in the source.  The model keeps    *)
(* them exact: an intent's quantity is counted in 1e-5 coins, scale_ratio  *)
(* in percent, and therefore a scaled quantity, an order amount and the    *)
(* exchange position in 1e-7 coins.  All intents concern one symbol.       *)
(*                                                                         *)
(* Action texts.  The router classifies an intent by substring tests on    *)
(* its Chinese action text.  A text is modelled as the sequence of its     *)
(* characters, each written in pinyin:                                     *)
(*   kai = open, ping = close, jia = add, jian = reduce,                   *)
(*   duo = long, kong = short, mai3 = buy,                                 *)
(*   tiao zheng ... gang gan = "adjust ... leverage"                       *)
(***************************************************************************)
EXTENDS Integers, Sequences, FiniteSets, TLC

VARIABLES
    pc,             \* "idle" | "exec" (at the loop head) | "body" (in the loop body)
    caller,         \* "none" | "direct" | "follow": who called execute_trades
    op,             \* the operation that ran last
    n,              \* len(trades) of the batch being executed
    i,              \* loop iterations of execute_trades completed
    success_count,  \* execute_trades' local success_count
    failed_count,   \* execute_trades' local failed_count
    dry_run,        \* execute_trades' parameter dry_run
    scale_ratio,    \* BitgetTraderCCXT.scale_ratio, in percent
    trade,          \* the intent handled by the last iteration
    counted,        \* how the last iteration counted it
    calls,          \* the exchange calls of the last iteration / operation
    position,       \* the exchange account's position (signed, one-way mode)
    result,         \* what execute_trades returned last
    close_result,   \* what close_all_positions returned, when it ran last
    config,         \* the configuration file: the document last written to
                    \* it, and whether that write is complete
    replaced,       \* the document the file held before the last save began
    platforms,      \* the 'enabled' flag of the registered platform
    received,       \* model ids of the trades given to execute_follow_trades
    checked,        \* how many of them _filter_whitelist_trades has examined
    models,         \* model ids of filtered_trades
    is_dry_run,     \* execute_follow_trades' local is_dry_run
    results,        \* execute_follow_trades' entry for the platform
    last_data,      \* the previous snapshot (last.json)
    current_data,   \* the snapshot just fetched (current.json)
    monitored_models, \* TradingMonitor.monitored_models; empty: all models
    trades,         \* what analyze_position_changes returned in this cycle
    filtered_trades, \* the intents _execute_bitget_follow_trades kept
    notified,       \* the cycle sent the position-change notification
    mode,           \* BitgetMultiModeTrader.mode
    demo_trader,    \* BitgetMultiModeTrader.demo_trader
    live_trader,    \* BitgetMultiModeTrader.live_trader
    multi_scale_ratio, \* BitgetMultiModeTrader.scale_ratio, in percent
    environment,    \* how each exchange session behaves in this run
    multi_pc,       \* where the dispatcher / the platform loop stands
    multi_caller,   \* "none" | "direct" | "follow": who called the dispatcher
    multi_op,       \* the dispatcher operation that ran last
    multi_trades,   \* the intents given to the dispatcher or the platforms
    multi_dry_run,  \* the dispatcher's parameter dry_run
    multi_results,  \* BitgetMultiModeTrader.execute_trades' local results
    multi_return,   \* what the dispatcher's execute_trades returned or raised
    enabled_platforms, \* which registered platforms are enabled
    platform_results,  \* execute_follow_trades' results, one entry a platform
    last_json,      \* the file last.json on disk
    current_json,   \* the file current.json on disk
    served,         \* what GET /api/positions of the web process found last
    cycle,          \* how the last run of _monitor_task went, "running" in it
    notifier,       \* how the notification channels behave in this run
    notifications,  \* the notifications attempted since the cycle began
    processed       \* the snapshot the last finished comparison or first run
                    \* of _monitor_task was made for (its current_data)

vars == <<pc, caller, op, n, i, success_count, failed_count, dry_run,
          scale_ratio, trade, counted, calls, position, result,
          close_result, config, replaced, platforms, received, checked,
          models, is_dry_run, results, last_data, current_data,
          monitored_models, trades, filtered_trades, notified, mode,
          demo_trader, live_trader, multi_scale_ratio, environment,
          multi_pc, multi_caller, multi_op, multi_trades, multi_dry_run,
          multi_results, multi_return, enabled_platforms, platform_results,
          last_json, current_json, served, cycle, notifier, notifications,
          processed>>

routerVars == <<pc, caller, op, n, i, success_count, failed_count, dry_run,
                trade, counted, calls, position, result, close_result>>

followVars == <<config, replaced, platforms, received, checked, models,
                is_dry_run, results>>

detectVars == <<last_data, current_data, monitored_models, trades,
                filtered_trades, notified>>

multiVars == <<mode, demo_trader, live_trader, multi_scale_ratio,
               environment, multi_pc, multi_caller, multi_op, multi_trades,
               multi_dry_run, multi_results, multi_return, enabled_platforms,
               platform_results>>

cycleVars == <<last_json, current_json, served, cycle, notifier, processed>>

(***************************************************************************)
(* Bounds                                                                  *)
(***************************************************************************)
\* longest batch of intents handed to execute_trades
MaxBatch == 2
\* the exchange's position limit, in multiples of the minimum tradable amount
MaxLots == 2

(***************************************************************************)
(* Program constants                                                       *)
(***************************************************************************)
\* 0.0001 coins, in 1e-7 coins
MinTradable == 1000

None == "None"
NA == "N/A"
Price == "price"
Junk == "junk"

\* a take-profit / stop-loss field: absent, the placeholder 'N/A', a number
\* (or numeric string), or a string float() cannot parse
Targets == {None, NA, Price, Junk}

\* 0, 0.0001 and 0.01 coins
Quantities == {0, 10, 1000}

\* 1% and 100%
ScaleRatios == {1, 100}

ModelIds == {"modelA", "modelB"}

Directions == {None, "long", "short"}

OpenLong == <<"kai", "duo">>
OpenShort == <<"kai", "kong">>
CloseLong == <<"ping", "duo">>
CloseShort == <<"ping", "kong">>
AddLong == <<"jia", "duo">>
AddShort == <<"jia", "kong">>
ReduceLong == <<"jian", "duo">>
ReduceShort == <<"jian", "kong">>
\* the detector's text for a newly opened long position
BuyLong == <<"mai3", "duo">>
\* the detector's text for a leverage-only change
AdjustLongLeverage == <<"tiao", "zheng", "mai3", "duo", "gang", "gan">>

ActionTexts == {OpenLong, OpenShort, CloseLong, CloseShort, AddLong, AddShort,
                ReduceLong, ReduceShort, BuyLong, AdjustLongLeverage}

\* nothing returned yet
NoResult == [returned |-> FALSE, success |-> 0, failed |-> 0]

NoTrade == [action |-> <<>>, quantity |-> 0, direction |-> None,
            profit_target |-> None, stop_loss |-> None]

\* 'x' in action
Has(ch, action) == \E k \in 1..Len(action) : action[k] = ch

is_open(action) == Has("kai", action)
is_close(action) == Has("ping", action)
\* an add test that also takes the text of a leverage change
is_addLeverage(action) == Has("jia", action) \/ Has("gang", action)

is_add(action) == Has("jia", action)
is_reduce(action) == Has("jian", action)

\* trade.get('direction', 'long')
DirectionOf(t) == IF t.direction = None THEN "long" ELSE t.direction

is_long(t) == DirectionOf(t) = "long" \/ Has("duo", t.action)

\* The intents the router is given (the fields execute_trades reads).  The
\* take-profit and stop-loss fields are read for an opening intent only; the
\* other intents carry none.
Trades ==
    { t \in [action : ActionTexts, quantity : Quantities,
             direction : Directions, profit_target : Targets,
             stop_loss : Targets] :
        is_open(t.action) \/ (t.profit_target = None /\ t.stop_loss = None) }

(***************************************************************************)
(* The exchange (ccxt.bitget), as far as the router sees it                *)
(***************************************************************************)
Abs(x) == IF x < 0 THEN 0 - x ELSE x
Min(a, b) == IF a < b THEN a ELSE b

PositionLimit == MaxLots * MinTradable

Positions == { k * MinTradable : k \in (0 - MaxLots)..MaxLots }

\* the position after a market order is filled; a reduce-only order never
\* increases or flips the position
ApplyFill(pos, side, amount, reduceOnly) ==
    IF reduceOnly
    THEN IF side = "sell"
         THEN (IF pos > 0 THEN pos - Min(amount, pos) ELSE pos)
         ELSE (IF pos < 0 THEN pos + Min(amount, 0 - pos) ELSE pos)
    ELSE IF side = "buy" THEN pos + amount ELSE pos - amount

\* exchange.create_order: answers an order or raises; it raises when the
\* order would exceed the position limit
ExchangeAccepts(pos, side, amount, reduceOnly, answer) ==
    answer /\ Abs(ApplyFill(pos, side, amount, reduceOnly)) <= PositionLimit

Call(call, side, amount, reduceOnly, holdSide, trigger, ok) ==
    [call |-> call, side |-> side, amount |-> amount,
     reduceOnly |-> reduceOnly, holdSide |-> holdSide, trigger |-> trigger,
     ok |-> ok]

(***************************************************************************)
(* BitgetTraderCCXT.place_order                                            *)
(***************************************************************************)
\* order_params['holdSide'] when the caller passes none
HoldSide(side, is_reduce_only) ==
    IF is_reduce_only
    THEN (IF side = "sell" THEN "long" ELSE "short")
    ELSE (IF side = "buy" THEN "long" ELSE "short")

\* One market order.  The result holds the call made, whether an order came
\* back (None otherwise: every exception is caught) and the position after.
place_order(pos, side, amount, reduceOnly, answer) ==
    LET ok == ExchangeAccepts(pos, side, amount, reduceOnly, answer)
    IN  [calls |-> <<Call("create_order", side, amount, reduceOnly,
                          HoldSide(side, reduceOnly), None, ok)>>,
         order |-> ok,
         pos |-> IF ok THEN ApplyFill(pos, side, amount, reduceOnly) ELSE pos]

(***************************************************************************)
(* BitgetTraderCCXT.set_take_profit_stop_loss                              *)
(***************************************************************************)
\* One trigger order (a plan order: it does not change the position now).
TriggerOrder(side, amount, trigger, answer) ==
    Call("create_order", side, amount, TRUE, None, trigger, answer)

\* take_profit_price / stop_loss_price are TRUE when a (non-zero) price is
\* given.  The result says which of the two orders were placed.
set_take_profit_stop_loss(side, amount, take_profit_price, stop_loss_price, answerTp, answerSl) ==
    LET tpCalls == IF take_profit_price
                   THEN <<TriggerOrder(side, amount, "take_profit", answerTp)>>
                   ELSE <<>>
        slCalls == IF stop_loss_price
                   THEN <<TriggerOrder(side, amount, "stop_loss", answerSl)>>
                   ELSE <<>>
    IN  [calls |-> tpCalls \o slCalls,
         take_profit |-> take_profit_price /\ answerTp,
         stop_loss |-> stop_loss_price /\ answerSl]

(***************************************************************************)
(* BitgetTraderCCXT.execute_trades: one iteration of its loop              *)
(***************************************************************************)
\* quantity * self.scale_ratio
ScaledQuantity(quantity, ratio) == quantity * ratio

\* "if quantity <= 0 or scaled_quantity <= 0"
SkipsZero(quantity, scaled) == quantity <= 0 \/ scaled <= 0

\* the threshold test dropped
TooSmallNever(scaled) == FALSE

\* "if scaled_quantity < 0.0001"
TooSmall(scaled) == scaled < MinTradable

\* the dry-run test dropped
SkipsDryRunNever(dry) == FALSE

\* "if dry_run"
SkipsDryRun(dry) == dry

\* Python truth of a target field
Truthy(v) == v # None

\* the gate testing the take-profit only
RiskGateRejectsTpOnly(tp, sl) == ~Truthy(tp) \/ tp = NA

\* "if not tp or tp == 'N/A' or not sl or sl == 'N/A'"
RiskGateRejects(tp, sl) == ~Truthy(tp) \/ tp = NA \/ ~Truthy(sl) \/ sl = NA

\* float(v) raises ValueError
FloatRaises(v) == v = Junk

\* either protective order accepted as protection
ProtectionPlacedAny(tp_sl_result) ==
    tp_sl_result.stop_loss \/ tp_sl_result.take_profit

\* "if tp_sl_result.get('stop_loss')"
ProtectionPlaced(tp_sl_result) == tp_sl_result.stop_loss

\* an except clause that only logs
ExceptionLost == None

\* the except clause of the loop body: "failed_count += 1"
ExceptionCounted == "failed"

Outcome(how, cs, pos) == [counted |-> how, calls |-> cs, pos |-> pos]

\* "if is_close"
RouteClose(t, scaled, pos, answer) ==
    LET close_side == IF is_long(t) THEN "sell" ELSE "buy"
        order == place_order(pos, close_side, scaled, TRUE, answer)
    IN  Outcome(IF order.order THEN "success" ELSE "failed",
                order.calls, order.pos)

\* "elif is_open"
RouteOpen(t, scaled, pos, answer, answerTp, answerSl) ==
    LET tp == t.profit_target
        sl == t.stop_loss
        open_side == IF is_long(t) THEN "buy" ELSE "sell"
        close_side == IF is_long(t) THEN "sell" ELSE "buy"
        order == place_order(pos, open_side, scaled, FALSE, answer)
        tp_sl_result ==
            set_take_profit_stop_loss(close_side, scaled,
                                      Truthy(tp) /\ tp # NA,
                                      Truthy(sl) /\ sl # NA,
                                      answerTp, answerSl)
    IN  IF RiskGateRejects(tp, sl)
        THEN Outcome("failed", <<>>, pos)
        ELSE IF ~order.order
        THEN Outcome("failed", order.calls, order.pos)
        ELSE IF FloatRaises(tp) \/ FloatRaises(sl)
        THEN Outcome(ExceptionCounted, order.calls, order.pos)
        ELSE Outcome(IF ProtectionPlaced(tp_sl_result)
                     THEN "success" ELSE "failed",
                     order.calls \o tp_sl_result.calls, order.pos)

\* "elif is_add or is_reduce"
RouteAddReduce(t, scaled, pos, answer) ==
    LET order ==
            IF is_add(t.action)
            THEN place_order(pos, IF is_long(t) THEN "buy" ELSE "sell",
                             scaled, FALSE, answer)
            ELSE place_order(pos, IF is_long(t) THEN "sell" ELSE "buy",
                             scaled, TRUE, answer)
    IN  Outcome(IF order.order THEN "success" ELSE "failed",
                order.calls, order.pos)

\* The body of "for i, trade in enumerate(trades, 1)".  answer, answerTp and
\* answerSl are the exchange's answers to the (at most three) orders.
RouteTrade(t, ratio, dry, pos, answer, answerTp, answerSl) ==
    LET quantity == t.quantity
        scaled_quantity == ScaledQuantity(quantity, ratio)
    IN  IF SkipsZero(quantity, scaled_quantity)
        THEN Outcome("success", <<>>, pos)
        ELSE IF TooSmall(scaled_quantity)
        THEN Outcome("success", <<>>, pos)
        ELSE IF SkipsDryRun(dry)
        THEN Outcome("success", <<>>, pos)
        ELSE IF is_close(t.action)
        THEN RouteClose(t, scaled_quantity, pos, answer)
        ELSE IF is_open(t.action)
        THEN RouteOpen(t, scaled_quantity, pos, answer, answerTp, answerSl)
        ELSE IF is_add(t.action) \/ is_reduce(t.action)
        THEN RouteAddReduce(t, scaled_quantity, pos, answer)
        ELSE Outcome("failed", <<>>, pos)

(***************************************************************************)
(* BitgetTraderCCXT.get_position / close_all_positions                     *)
(***************************************************************************)
SideOf(pos) == IF pos > 0 THEN "long" ELSE IF pos < 0 THEN "short" ELSE None

\* fetch_positions, filtered to contracts > 0; [] when the query raises
get_position(pos, answer) ==
    [calls |-> <<Call("fetch_positions", IF answer THEN SideOf(pos) ELSE None,
                      IF answer THEN Abs(pos) ELSE 0, FALSE, None, None,
                      answer)>>,
     positions |-> IF answer /\ pos # 0 THEN <<pos>> ELSE <<>>]

\* side is None, "long" or "short" (the optional filter)
close_all_positions(side, pos, answerFetch, answer) ==
    LET q == get_position(pos, answerFetch)
        pos_side == SideOf(pos)
        close_side == IF pos_side = "long" THEN "sell" ELSE "buy"
        order == place_order(pos, close_side, Abs(pos), TRUE, answer)
    IN  IF q.positions = <<>>
        THEN [ok |-> FALSE, calls |-> q.calls, pos |-> pos]
        ELSE IF side # None /\ pos_side # side
        THEN [ok |-> TRUE, calls |-> q.calls, pos |-> pos]
        ELSE [ok |-> order.order, calls |-> q.calls \o order.calls,
              pos |-> order.pos]

(***************************************************************************)
(* ConfigManager                                                           *)
(***************************************************************************)
\* self.default_config; scale_ratio 0.1 is 10 percent
default_config == [enabled |-> FALSE, scale_ratio |-> 10,
                   whitelist_models |-> {}, dry_run |-> FALSE]

\* 10%, 100%, and 200%, which is outside (0, 1]
PostedRatios == {10, 100, 200}

\* the documents the web form posts
Posted == [enabled : BOOLEAN, scale_ratio : PostedRatios,
           whitelist_models : {{}, {"modelA"}}, dry_run : BOOLEAN]

\* a scale_ratio outside (0, 1] is replaced by the default
_validate_config(doc) ==
    [doc EXCEPT !.scale_ratio =
        IF 0 < doc.scale_ratio /\ doc.scale_ratio <= 100
        THEN doc.scale_ratio ELSE default_config.scale_ratio]

\* the file after open(config_file, 'w') truncated it, json.dump not done
Truncated(doc) == [complete |-> FALSE, doc |-> doc]
\* the file once the document is written
Written(doc) == [complete |-> TRUE, doc |-> doc]

\* load_config: json.load of a file caught mid-write raises
\* JSONDecodeError, and the default configuration is returned
load_config(file) == IF file.complete THEN file.doc ELSE default_config

\* get_enabled without the look at the configuration
get_enabledAlways(file) == TRUE

get_enabled(file) == load_config(file).enabled
ConfigManager_is_dry_run(file) == load_config(file).dry_run
get_scale_ratio(file) == load_config(file).scale_ratio
get_whitelist_models(file) == load_config(file).whitelist_models

\* an empty whitelist follows every model
is_model_whitelisted(model_id, file) ==
    LET whitelist == get_whitelist_models(file)
    IN  IF whitelist = {} THEN TRUE ELSE model_id \in whitelist

(***************************************************************************)
(* FollowTradeManager                                                      *)
(***************************************************************************)
\* the intents of a follow batch: an Open with both targets, a Close, and an
\* Open without stop-loss
FollowTrades ==
    { [action |-> OpenLong, quantity |-> 1000, direction |-> "long",
       profit_target |-> Price, stop_loss |-> Price],
      [action |-> CloseLong, quantity |-> 1000, direction |-> "long",
       profit_target |-> None, stop_loss |-> None],
      [action |-> OpenShort, quantity |-> 1000, direction |-> "short",
       profit_target |-> Price, stop_loss |-> NA] }

\* the batches of model ids a cycle hands to execute_follow_trades
Batches == UNION { [1..k -> ModelIds] : k \in 0..MaxBatch }

(***************************************************************************)
(* TradeAnalyzer.  A snapshot maps the ids of the models it holds to their  *)
(* positions, and positions map the symbols held to position records.       *)
(* Quantities are in 1e-5 coins, as an intent's quantity.                   *)
(***************************************************************************)
Symbols == {"BTC", "ETH"}

\* the detector's texts: buy long, sell short, add to / reduce a long or a
\* short position, adjust the leverage of a short position
SellShort == <<"mai4", "kong">>
AddBuyLong == <<"jia", "cang", "mai3", "duo">>
AddSellShort == <<"jia", "cang", "mai4", "kong">>
ReduceBuyLong == <<"jian", "cang", "mai3", "duo">>
ReduceSellShort == <<"jian", "cang", "mai4", "kong">>
AdjustShortLeverage == <<"tiao", "zheng", "mai4", "kong", "gang", "gan">>

\* exit plans: both targets set, or none
PlanBoth == [profit_target |-> Price, stop_loss |-> Price]
PlanNone == [profit_target |-> None, stop_loss |-> None]

\* position records: 0.01 and 0.02 coins long, 0.01 long at leverage 2,
\* 0.01 and 0.02 coins short
LongSmall == [quantity |-> 1000, leverage |-> 1, exit_plan |-> PlanBoth]
LongBig == [quantity |-> 2000, leverage |-> 1, exit_plan |-> PlanBoth]
LongLevered == [quantity |-> 1000, leverage |-> 2, exit_plan |-> PlanBoth]
ShortSmall == [quantity |-> 0 - 1000, leverage |-> 1, exit_plan |-> PlanNone]
ShortBig == [quantity |-> 0 - 2000, leverage |-> 1, exit_plan |-> PlanNone]

PositionRecords == {LongSmall, LongBig, LongLevered, ShortSmall, ShortBig}

\* a record whose quantity is 0: position_data.get('quantity', 0) of an API
\* record without a quantity, or with the quantity 0
Flat == [quantity |-> 0, leverage |-> 1, exit_plan |-> PlanNone]

\* a record whose quantity is null: position_data.get('quantity', 0) returns
\* None when the API record carries "quantity": null
Malformed == [quantity_null |-> TRUE, leverage |-> 1, exit_plan |-> PlanNone]

\* the record's quantity is a number
IsNumber(pos) == "quantity" \in DOMAIN pos

NoPositions == [s \in {} |-> LongSmall]
NoSnapshot == [m \in {} |-> NoPositions]

\* the positions a model may hold: any record in BTC, some in ETH
ModelPositions ==
    { ps \in UNION { [S -> PositionRecords] : S \in SUBSET Symbols } :
        "ETH" \in DOMAIN ps => ps["ETH"] \in {LongSmall, ShortSmall} }

\* modelA holds any of these; modelB, when present, one BTC position
Snapshots ==
    { d \in UNION { [M -> ModelPositions] : M \in SUBSET ModelIds } :
        "modelB" \in DOMAIN d
        => (DOMAIN d["modelB"] = {"BTC"}
            /\ d["modelB"]["BTC"] \in {LongSmall, ShortSmall}) }

\* the orders in which a set may be iterated
Orderings(S) ==
    { f \in [1..Cardinality(S) -> S] : \A x \in S : \E k \in DOMAIN f : f[k] = x }

\* the elements of S in the order of seq
RECURSIVE Restrict(_, _)
Restrict(seq, S) ==
    IF seq = <<>> THEN <<>>
    ELSE (IF Head(seq) \in S THEN <<Head(seq)>> ELSE <<>>)
         \o Restrict(Tail(seq), S)

\* exit_plan.get(key, 'N/A')
PlanTarget(v) == IF v = None THEN NA ELSE v

\* the direction text without the test of the sign
DirectionTextLong(quantity) == BuyLong

\* "if quantity > 0: direction = 买多 else: direction = 卖空"
DirectionText(quantity) == IF quantity > 0 THEN BuyLong ELSE SellShort

\* the action text of a changed position
ChangeAction(quantity_change, current_quantity) ==
    IF quantity_change > 0
    THEN (IF current_quantity > 0 THEN AddBuyLong ELSE AddSellShort)
    ELSE IF quantity_change < 0
    THEN (IF current_quantity > 0 THEN ReduceBuyLong ELSE ReduceSellShort)
    ELSE (IF current_quantity > 0
          THEN AdjustLongLeverage ELSE AdjustShortLeverage)

\* the body of _analyze_symbol_changes' try block on records whose fields
\* have the expected types (the message, price and timestamp fields are
\* left out)
SymbolIntents(model_id, symbol, last_positions, current_positions) ==
    LET has_last == symbol \in DOMAIN last_positions
        has_current == symbol \in DOMAIN current_positions
        last_pos == last_positions[symbol]
        current_pos == current_positions[symbol]
        quantity_change == current_pos.quantity - last_pos.quantity
    IN  IF ~has_last /\ has_current
        THEN << [type |-> "position_opened", model_id |-> model_id,
                 symbol |-> symbol,
                 action |-> DirectionText(current_pos.quantity),
                 quantity |-> Abs(current_pos.quantity),
                 leverage |-> current_pos.leverage,
                 tp |-> PlanTarget(current_pos.exit_plan.profit_target),
                 sl |-> PlanTarget(current_pos.exit_plan.stop_loss)] >>
        ELSE IF has_last /\ ~has_current
        THEN << [type |-> "position_closed", model_id |-> model_id,
                 symbol |-> symbol,
                 last_quantity |-> last_pos.quantity,
                 last_leverage |-> last_pos.leverage,
                 direction |-> DirectionText(last_pos.quantity),
                 tp |-> PlanTarget(last_pos.exit_plan.profit_target),
                 sl |-> PlanTarget(last_pos.exit_plan.stop_loss)] >>
        ELSE IF ~has_last \/ ~has_current
        THEN <<>>
        ELSE IF last_pos.quantity # current_pos.quantity
                \/ last_pos.leverage # current_pos.leverage
        THEN << [type |-> "position_changed", model_id |-> model_id,
                 symbol |-> symbol,
                 action |-> ChangeAction(quantity_change,
                                         current_pos.quantity),
                 quantity_change |-> Abs(quantity_change),
                 last_quantity |-> last_pos.quantity,
                 current_quantity |-> current_pos.quantity,
                 last_leverage |-> last_pos.leverage,
                 current_leverage |-> current_pos.leverage,
                 tp |-> PlanTarget(current_pos.exit_plan.profit_target),
                 sl |-> PlanTarget(current_pos.exit_plan.stop_loss)] >>
        ELSE <<>>

\* the try block raises when it computes with a quantity that is no number
SymbolRaises(symbol, last_positions, current_positions) ==
    \/ symbol \in DOMAIN last_positions /\ ~IsNumber(last_positions[symbol])
    \/ symbol \in DOMAIN current_positions /\ ~IsNumber(current_positions[symbol])

\* a handler under which the exception of one symbol empties the model's
\* intents
_analyze_symbol_changesAbort(model_id, symbol, last_positions, current_positions) ==
    IF \E other \in Symbols : SymbolRaises(other, last_positions, current_positions)
    THEN <<>>
    ELSE SymbolIntents(model_id, symbol, last_positions, current_positions)

\* the intents of one symbol of a model present in both snapshots:
\* "except Exception as e: ... return []"
_analyze_symbol_changes(model_id, symbol, last_positions, current_positions) ==
    IF SymbolRaises(symbol, last_positions, current_positions)
    THEN <<>>
    ELSE SymbolIntents(model_id, symbol, last_positions, current_positions)

\* "for symbol in all_symbols", in the order the set is iterated
RECURSIVE SymbolTrades(_, _, _, _)
SymbolTrades(model_id, order, last_positions, current_positions) ==
    IF order = <<>> THEN <<>>
    ELSE _analyze_symbol_changes(model_id, Head(order), last_positions,
                                 current_positions)
         \o SymbolTrades(model_id, Tail(order), last_positions,
                         current_positions)

\* the model-level step without the two early returns: a model in one
\* snapshot only yields nothing
_analyze_model_changesNoAdded(model_id, last, current, symbolOrder) ==
    IF model_id \notin DOMAIN last \/ model_id \notin DOMAIN current
    THEN <<>>
    ELSE SymbolTrades(model_id,
                      Restrict(symbolOrder,
                               DOMAIN last[model_id] \cup DOMAIN current[model_id]),
                      last[model_id], current[model_id])

\* symbolOrder is the order in which sets of symbols are iterated
_analyze_model_changes(model_id, last, current, symbolOrder) ==
    LET has_last == model_id \in DOMAIN last
        has_current == model_id \in DOMAIN current
        all_symbols == DOMAIN last[model_id] \cup DOMAIN current[model_id]
    IN  IF ~has_last /\ has_current
        THEN << [type |-> "model_added", model_id |-> model_id] >>
        ELSE IF has_last /\ ~has_current
        THEN << [type |-> "model_removed", model_id |-> model_id] >>
        ELSE IF ~has_last \/ ~has_current
        THEN <<>>
        ELSE SymbolTrades(model_id, Restrict(symbolOrder, all_symbols),
                          last[model_id], current[model_id])

\* "for model_id in models_to_check"
RECURSIVE ModelTrades(_, _, _, _)
ModelTrades(order, last, current, symbolOrder) ==
    IF order = <<>> THEN <<>>
    ELSE _analyze_model_changes(Head(order), last, current, symbolOrder)
         \o ModelTrades(Tail(order), last, current, symbolOrder)

\* analyze_position_changes without the intersection with monitored_models
analyze_position_changesAll(last, current, monitored, modelOrder, symbolOrder) ==
    ModelTrades(Restrict(modelOrder, DOMAIN last \cup DOMAIN current), last,
                current, symbolOrder)

\* modelOrder and symbolOrder are the orders in which the sets of model ids
\* and of symbols are iterated
analyze_position_changes(last, current, monitored, modelOrder, symbolOrder) ==
    LET models_to_check ==
            IF monitored # {}
            THEN (DOMAIN last \cup DOMAIN current) \cap monitored
            ELSE DOMAIN last \cup DOMAIN current
    IN  ModelTrades(Restrict(modelOrder, models_to_check), last, current,
                    symbolOrder)

(***************************************************************************)
(* BitgetMultiModeTrader: two BitgetTraderCCXT instances, one per exchange *)
(* session (demo, live), behind one interface                              *)
(***************************************************************************)
MODE_DEMO_ONLY == 0
MODE_LIVE_ONLY == 1
MODE_BOTH == 2

Modes == {MODE_DEMO_ONLY, MODE_LIVE_ONLY, MODE_BOTH}

\* How an exchange session behaves during a run: it accepts every order, it
\* rejects every order, or execute_trades on it ends with an exception
\* (orders are rejected on such a session, too).
Behaviours == {"ok", "fails", "raises"}

\* self.demo_trader = None / self.live_trader = None
NoTrader == [exists |-> FALSE, scale_ratio |-> 0, position |-> 0,
             reached |-> FALSE, calls |-> <<>>]

\* BitgetTraderCCXT(..., scale_ratio=scale_ratio, env_name=...); 'reached'
\* and 'calls' record whether the operation in progress called the trader,
\* and the exchange calls it made for it
Trader(ratio) == [exists |-> TRUE, scale_ratio |-> ratio, position |-> 0,
                  reached |-> FALSE, calls |-> <<>>]

NoResults == [demo |-> NoResult, live |-> NoResult]

NoReturn == [returned |-> FALSE, raised |-> FALSE, total_success |-> 0,
             total_failed |-> 0]

\* a platform's entry of execute_follow_trades' results; 'error' is set by
\* the except clause of the platform loop
NoPlatformResult == [returned |-> FALSE, success |-> 0, failed |-> 0,
                     error |-> FALSE]

\* the intents handed to the dispatcher: an Open with both targets and a
\* Close, of 0.001 coins each
MultiTrades ==
    { [action |-> OpenLong, quantity |-> 100, direction |-> "long",
       profit_target |-> Price, stop_loss |-> Price],
      [action |-> CloseLong, quantity |-> 100, direction |-> "long",
       profit_target |-> None, stop_loss |-> None] }

MultiBatches == UNION { [1..k -> MultiTrades] : k \in 0..MaxBatch }

\* 10% and 100%
MultiRatios == {10, 100}

\* BitgetTraderCCXT.execute_trades on a whole batch: the loop of RouteTrade,
\* on a session that gives every order the same answer.  (r and rest range
\* over one-element sets, which makes each of them computed once.)
RECURSIVE execute_trades(_, _, _, _, _)
execute_trades(ts, ratio, dry, pos, answer) ==
    IF ts = <<>>
    THEN [success |-> 0, failed |-> 0, calls |-> <<>>, pos |-> pos]
    ELSE CHOOSE out \in UNION {
             { [success |-> rest.success
                            + (IF r.counted = "success" THEN 1 ELSE 0),
                failed |-> rest.failed
                           + (IF r.counted = "failed" THEN 1 ELSE 0),
                calls |-> r.calls \o rest.calls,
                pos |-> rest.pos] :
               rest \in {execute_trades(Tail(ts), ratio, dry, r.pos, answer)} } :
             r \in {RouteTrade(Head(ts), ratio, dry, pos, answer, answer,
                               answer)} } : TRUE

\* trader.execute_trades(trades, dry_run=dry_run) on a session that behaves
\* as 'behaviour' says.  An exception that leaves execute_trades is raised
\* outside the per-intent try, before the first intent is handled.
RunTrader(trader, behaviour, ts, dry) ==
    IF behaviour = "raises"
    THEN [raised |-> TRUE, result |-> NoResult,
          trader |-> [trader EXCEPT !.reached = TRUE, !.calls = <<>>]]
    ELSE CHOOSE out \in
             { [raised |-> FALSE,
                result |-> [returned |-> TRUE, success |-> r.success,
                            failed |-> r.failed],
                trader |-> [trader EXCEPT !.reached = TRUE,
                                          !.calls = r.calls,
                                          !.position = r.pos]] :
               r \in {execute_trades(ts, trader.scale_ratio, dry,
                                     trader.position, behaviour = "ok")} } :
             TRUE

\* "if self.demo_trader and (self.mode == self.MODE_DEMO_ONLY or
\*  self.mode == self.MODE_BOTH)"
DemoActive == demo_trader.exists /\ (mode = MODE_DEMO_ONLY \/ mode = MODE_BOTH)

\* "if self.live_trader and (self.mode == self.MODE_LIVE_ONLY or
\*  self.mode == self.MODE_BOTH)"
LiveActive == live_trader.exists /\ (mode = MODE_LIVE_ONLY \/ mode = MODE_BOTH)

\* sum(r.get('success', 0) for r in results.values()), of the demo entry alone
TotalDemoOnly(rs, key) == IF rs.demo.returned THEN rs.demo[key] ELSE 0

\* sum(r.get(key, 0) for r in results.values())
Total(rs, key) ==
    (IF rs.demo.returned THEN rs.demo[key] ELSE 0)
    + (IF rs.live.returned THEN rs.live[key] ELSE 0)

(***************************************************************************)
(* The snapshot files of PositionDataFetcher, the web process that reads   *)
(* last.json, and the notification channels                                *)
(***************************************************************************)
\* a file that was never written
NoFile == [state |-> "absent", data |-> NoSnapshot]
\* a file after os.remove(filename)
Removed == [state |-> "removed", data |-> NoSnapshot]
\* a file after open(filename, 'w'), json.dump not finished
Partial(data) == [state |-> "partial", data |-> data]
\* a file that holds the whole document
Complete(data) == [state |-> "complete", data |-> data]

\* a test that finds no file
existsNever(file) == FALSE

\* os.path.exists(filename)
exists(file) == file.state \in {"partial", "complete"}

\* load_positions(filename): None when the file is missing or json.load
\* raises
load_positions(file) ==
    IF file.state = "complete" THEN file.data ELSE NoSnapshot

\* "if not last_data" of what load_positions returned: None; a document a
\* file holds is never falsy, save_positions adds fetch_time and timestamp
LoadsNone(file) == file.state # "complete"

\* the web process has served no request yet
NotServed == [status |-> 0, found |-> "none", data |-> NoSnapshot]

\* GET /api/positions -> load_last_json(): abort(404) when the file does not
\* exist; json.load of a file caught half-written raises (500)
load_last_json(file) ==
    IF ~exists(file)
    THEN [status |-> 404, found |-> file.state, data |-> NoSnapshot]
    ELSE IF file.state = "partial"
    THEN [status |-> 500, found |-> file.state, data |-> NoSnapshot]
    ELSE [status |-> 200, found |-> file.state, data |-> file.data]

\* no notification was attempted: the position-change notification of
\* _monitor_task (trades), the follow report of TradingMonitor (bitget), and
\* the follow reports of FollowTradeManager, one a platform (multi, single)
NoNotifications ==
    [trades |-> "none", bitget |-> "none", multi |-> "none",
     single |-> "none"]

\* what an attempt to deliver a notification comes to
Delivery(behaviour) ==
    IF behaviour = "ok" THEN "sent"
    ELSE IF behaviour = "fails" THEN "failed"
    ELSE "raised"

\* a sender whose except clauses let the exception of a channel through
NotificationEscapesRaised(behaviour) == behaviour = "raises"

\* the senders wrap every channel, and their whole body, in try/except
\* Exception: no exception of a channel leaves them
NotificationEscapes(behaviour) == FALSE

\* the state of a run without snapshot files
NoCycle ==
    /\ last_json = NoFile
    /\ current_json = NoFile
    /\ served = NotServed
    /\ cycle = "none"
    /\ notifications = NoNotifications
    /\ processed = NoSnapshot

\* the state of a run without a multi-mode trader
NoDispatcher ==
    /\ mode = MODE_DEMO_ONLY
    /\ demo_trader = NoTrader
    /\ live_trader = NoTrader
    /\ multi_scale_ratio = 0
    /\ environment = [demo |-> "ok", live |-> "ok", single |-> "ok"]
    /\ multi_pc = "idle"
    /\ multi_caller = "none"
    /\ multi_op = "none"
    /\ multi_trades = <<>>
    /\ multi_dry_run = FALSE
    /\ multi_results = NoResults
    /\ multi_return = NoReturn
    /\ enabled_platforms = [multi |-> FALSE, single |-> FALSE]
    /\ platform_results = [multi |-> NoPlatformResult,
                           single |-> NoPlatformResult]

(***************************************************************************)
(* State machine                                                           *)
(***************************************************************************)

Init ==
    /\ pc = "idle"
    /\ caller = "none"
    /\ op = "none"
    /\ n = 0
    /\ i = 0
    /\ success_count = 0
    /\ failed_count = 0
    /\ dry_run = FALSE
    /\ scale_ratio \in ScaleRatios
    /\ trade = NoTrade
    /\ counted = None
    /\ calls = <<>>
    /\ position \in Positions
    /\ result = NoResult
    /\ close_result = FALSE
    /\ config = Written(default_config)
    /\ replaced = default_config
    /\ platforms \in BOOLEAN
    /\ received = <<>>
    /\ checked = 0
    /\ models = <<>>
    /\ is_dry_run = FALSE
    /\ results = NoResult
    /\ last_data = NoSnapshot
    /\ current_data = NoSnapshot
    /\ monitored_models = {}
    /\ trades = <<>>
    /\ filtered_trades = <<>>
    /\ notified = FALSE
    /\ NoDispatcher
    /\ NoCycle
    /\ notifier = "ok"

\* a caller (the monitor, the test script) calls execute_trades(trades, dry_run)
CallExecuteTrades ==
    /\ pc = "idle"
    /\ \E k \in 0..MaxBatch, d \in BOOLEAN :
        /\ n' = k
        /\ dry_run' = d
    /\ pc' = "exec"
    /\ caller' = "direct"
    /\ op' = "execute_trades"
    /\ i' = 0
    /\ success_count' = 0
    /\ failed_count' = 0
    /\ trade' = NoTrade
    /\ counted' = None
    /\ calls' = <<>>
    /\ result' = NoResult
    /\ close_result' = FALSE
    /\ UNCHANGED <<scale_ratio, position, followVars>>
    /\ UNCHANGED detectVars
    /\ UNCHANGED multiVars
    /\ UNCHANGED <<cycleVars, notifications>>

\* "for i, trade in enumerate(trades, 1)": the loop takes the next intent,
\* which is one of T
NextTrade(T) ==
    /\ pc = "exec"
    /\ i < n
    /\ pc' = "body"
    /\ trade' \in T
    /\ counted' = None
    /\ calls' = <<>>
    /\ UNCHANGED <<caller, op, n, i, success_count, failed_count, dry_run,
                   scale_ratio, position, result, close_result, followVars>>
    /\ UNCHANGED detectVars
    /\ UNCHANGED multiVars
    /\ UNCHANGED <<cycleVars, notifications>>

ExecuteTradesNextTrade == NextTrade(Trades)

\* the loop body on that intent, with the exchange's answers
ExecuteTradesBody ==
    /\ pc = "body"
    /\ \E answer \in BOOLEAN, answerTp \in BOOLEAN, answerSl \in BOOLEAN :
        LET r == RouteTrade(trade, scale_ratio, dry_run, position,
                            answer, answerTp, answerSl)
        IN  /\ counted' = r.counted
            /\ calls' = r.calls
            /\ position' = r.pos
            /\ success_count' =
                   success_count + (IF r.counted = "success" THEN 1 ELSE 0)
            /\ failed_count' =
                   failed_count + (IF r.counted = "failed" THEN 1 ELSE 0)
    /\ pc' = "exec"
    /\ i' = i + 1
    /\ UNCHANGED <<caller, op, n, dry_run, scale_ratio, trade, result,
                   close_result, followVars>>
    /\ UNCHANGED detectVars
    /\ UNCHANGED multiVars
    /\ UNCHANGED <<cycleVars, notifications>>

\* "return {'success': success_count, 'failed': failed_count}"
ExecuteTradesReturn ==
    /\ pc = "exec"
    /\ i = n
    /\ caller = "direct"
    /\ pc' = "idle"
    /\ result' = [returned |-> TRUE, success |-> success_count,
                  failed |-> failed_count]
    /\ trade' = NoTrade
    /\ counted' = None
    /\ calls' = <<>>
    /\ UNCHANGED <<caller, op, n, i, success_count, failed_count, dry_run,
                   scale_ratio, position, close_result, followVars>>
    /\ UNCHANGED detectVars
    /\ UNCHANGED multiVars
    /\ UNCHANGED <<cycleVars, notifications>>

\* a caller (the test script) calls close_all_positions(symbol, side)
CallCloseAllPositions ==
    /\ pc = "idle"
    /\ \E side \in {None, "long", "short"}, answerFetch \in BOOLEAN,
          answer \in BOOLEAN :
        LET r == close_all_positions(side, position, answerFetch, answer)
        IN  /\ close_result' = r.ok
            /\ calls' = r.calls
            /\ position' = r.pos
    /\ op' = "close_all_positions"
    /\ caller' = "direct"
    /\ trade' = NoTrade
    /\ counted' = None
    /\ result' = NoResult
    /\ UNCHANGED <<pc, n, i, success_count, failed_count, dry_run,
                   scale_ratio, followVars>>
    /\ UNCHANGED detectVars
    /\ UNCHANGED multiVars
    /\ UNCHANGED <<cycleVars, notifications>>

Next ==
    \/ CallExecuteTrades
    \/ ExecuteTradesNextTrade
    \/ ExecuteTradesBody
    \/ ExecuteTradesReturn
    \/ CallCloseAllPositions

Spec == Init /\ [][Next]_vars

(***************************************************************************)
(* State machine of a follow cycle.  The web process saves the             *)
(* configuration file while the monitor process reads it, once per getter. *)
(***************************************************************************)
\* POST /api/config -> save_config: the document is validated and the file
\* opened for writing, which truncates it
SaveConfigOpen ==
    /\ config.complete
    /\ \E new_config \in Posted :
        config' = Truncated(_validate_config(new_config))
    /\ replaced' = config.doc
    /\ UNCHANGED <<routerVars, scale_ratio, platforms, received, checked,
                   models, is_dry_run, results>>
    /\ UNCHANGED detectVars
    /\ UNCHANGED multiVars
    /\ UNCHANGED <<cycleVars, notifications>>

\* json.dump and the close of the file
SaveConfigWrite ==
    /\ ~config.complete
    /\ config' = Written(config.doc)
    /\ replaced' = config.doc
    /\ UNCHANGED <<routerVars, scale_ratio, platforms, received, checked,
                   models, is_dry_run, results>>
    /\ UNCHANGED detectVars
    /\ UNCHANGED multiVars
    /\ UNCHANGED <<cycleVars, notifications>>

\* execute_follow_trades(trades), up to the get_enabled() test
ExecuteFollowTrades ==
    /\ pc = "idle"
    /\ received' \in Batches
    /\ pc' = IF platforms /\ get_enabled(config) THEN "follow" ELSE "idle"
    /\ caller' = "follow"
    /\ op' = "execute_follow_trades"
    /\ checked' = 0
    /\ models' = <<>>
    /\ is_dry_run' = FALSE
    /\ results' = NoResult
    /\ n' = 0
    /\ i' = 0
    /\ success_count' = 0
    /\ failed_count' = 0
    /\ trade' = NoTrade
    /\ counted' = None
    /\ calls' = <<>>
    /\ result' = NoResult
    /\ close_result' = FALSE
    /\ UNCHANGED <<dry_run, scale_ratio, position, config, replaced,
                   platforms>>
    /\ UNCHANGED detectVars
    /\ UNCHANGED multiVars
    /\ UNCHANGED <<cycleVars, notifications>>

\* "is_dry_run = self.config_manager.is_dry_run()"
FollowIsDryRun ==
    /\ pc = "follow"
    /\ is_dry_run' = ConfigManager_is_dry_run(config)
    /\ pc' = "filter"
    /\ UNCHANGED <<caller, op, n, i, success_count, failed_count, dry_run,
                   scale_ratio, trade, counted, calls, position, result,
                   close_result, config, replaced, platforms, received,
                   checked, models, results>>
    /\ UNCHANGED detectVars
    /\ UNCHANGED multiVars
    /\ UNCHANGED <<cycleVars, notifications>>

\* one iteration of _filter_whitelist_trades' loop
FilterWhitelistTrade ==
    /\ pc = "filter"
    /\ checked < Len(received)
    /\ checked' = checked + 1
    /\ models' = IF is_model_whitelisted(received[checked + 1], config)
                 THEN Append(models, received[checked + 1])
                 ELSE models
    /\ UNCHANGED <<routerVars, scale_ratio, config, replaced, platforms,
                   received, is_dry_run, results>>
    /\ UNCHANGED detectVars
    /\ UNCHANGED multiVars
    /\ UNCHANGED <<cycleVars, notifications>>

\* _filter_whitelist_trades returns; "if not filtered_trades: return results"
FilterReturn ==
    /\ pc = "filter"
    /\ checked = Len(received)
    /\ pc' = IF models = <<>> THEN "idle" ELSE "platform"
    /\ UNCHANGED <<caller, op, n, i, success_count, failed_count, dry_run,
                   scale_ratio, trade, counted, calls, position, result,
                   close_result, followVars>>
    /\ UNCHANGED detectVars
    /\ UNCHANGED multiVars
    /\ UNCHANGED <<cycleVars, notifications>>

\* the platform loop's body up to the call of the executor: the scale ratio
\* is read and set; a dry run records its result without calling the executor
FollowPlatform ==
    /\ pc = "platform"
    /\ scale_ratio' = get_scale_ratio(config)
    /\ pc' = IF is_dry_run THEN "idle" ELSE "exec"
    /\ results' = IF is_dry_run
                  THEN [returned |-> TRUE, success |-> Len(models),
                        failed |-> 0]
                  ELSE results
    /\ n' = IF is_dry_run THEN n ELSE Len(models)
    /\ dry_run' = FALSE
    /\ UNCHANGED <<caller, op, i, success_count, failed_count, trade,
                   counted, calls, position, result, close_result, config,
                   replaced, platforms, received, checked, models,
                   is_dry_run>>
    /\ UNCHANGED detectVars
    /\ UNCHANGED multiVars
    /\ UNCHANGED <<cycleVars, notifications>>

FollowNextTrade == NextTrade(FollowTrades)

\* executor.execute_trades returns and "results[platform_name] = result"
FollowReturn ==
    /\ pc = "exec"
    /\ i = n
    /\ caller = "follow"
    /\ pc' = "idle"
    /\ result' = [returned |-> TRUE, success |-> success_count,
                  failed |-> failed_count]
    /\ results' = result'
    /\ trade' = NoTrade
    /\ counted' = None
    /\ calls' = <<>>
    /\ UNCHANGED <<caller, op, n, i, success_count, failed_count, dry_run,
                   scale_ratio, position, close_result, config, replaced,
                   platforms, received, checked, models, is_dry_run>>
    /\ UNCHANGED detectVars
    /\ UNCHANGED multiVars
    /\ UNCHANGED <<cycleVars, notifications>>

NextFollow ==
    \/ SaveConfigOpen
    \/ SaveConfigWrite
    \/ ExecuteFollowTrades
    \/ FollowIsDryRun
    \/ FilterWhitelistTrade
    \/ FilterReturn
    \/ FollowPlatform
    \/ FollowNextTrade
    \/ ExecuteTradesBody
    \/ FollowReturn

SpecFollow == Init /\ [][NextFollow]_vars

(***************************************************************************)
(* State machine of a monitor cycle (TradingMonitor._monitor_task), from    *)
(* the analysis of the two snapshots on                                     *)
(***************************************************************************)
\* the configurations a cycle runs under
MonitorConfigs ==
    [enabled : BOOLEAN, scale_ratio : {100},
     whitelist_models : {{}, {"modelA"}}, dry_run : BOOLEAN]

InitMonitor ==
    /\ pc = "idle"
    /\ caller = "none"
    /\ op = "none"
    /\ n = 0
    /\ i = 0
    /\ success_count = 0
    /\ failed_count = 0
    /\ dry_run = FALSE
    /\ scale_ratio = 100
    /\ trade = NoTrade
    /\ counted = None
    /\ calls = <<>>
    /\ position = 0
    /\ result = NoResult
    /\ close_result = FALSE
    /\ \E doc \in MonitorConfigs : config = Written(doc)
    /\ replaced = default_config
    /\ platforms = TRUE
    /\ received = <<>>
    /\ checked = 0
    /\ models = <<>>
    /\ is_dry_run = FALSE
    /\ results = NoResult
    /\ last_data \in Snapshots
    /\ current_data \in Snapshots
    /\ monitored_models \in {{}, {"modelA"}}
    /\ trades = <<>>
    /\ filtered_trades = <<>>
    /\ notified = FALSE
    /\ NoDispatcher
    /\ NoCycle
    /\ notifier = "ok"

\* the direction field of a position_closed intent holds the text 买多 or
\* 卖空, a string that is neither 'long' nor 'short'
DirectionField(text) == IF text = BuyLong THEN "mai3 duo" ELSE "mai4 kong"

\* what execute_trades reads of an intent: trade.get('action', ''),
\* trade.get('quantity', 0), trade.get('direction', 'long'),
\* trade.get('profit_target'), trade.get('stop_loss')
ReadTrade(intent) ==
    [action |-> IF "action" \in DOMAIN intent THEN intent.action ELSE <<>>,
     quantity |-> IF "quantity" \in DOMAIN intent THEN intent.quantity ELSE 0,
     direction |-> IF "direction" \in DOMAIN intent
                   THEN DirectionField(intent.direction) ELSE None,
     profit_target |-> IF "profit_target" \in DOMAIN intent
                       THEN intent.profit_target ELSE None,
     stop_loss |-> IF "stop_loss" \in DOMAIN intent
                   THEN intent.stop_loss ELSE None]

\* the whitelist loop of _execute_bitget_follow_trades
RECURSIVE FilterWhitelisted(_, _)
FilterWhitelisted(ts, file) ==
    IF ts = <<>> THEN <<>>
    ELSE (IF is_model_whitelisted(Head(ts).model_id, file)
          THEN <<Head(ts)>> ELSE <<>>)
         \o FilterWhitelisted(Tail(ts), file)

\* steps 4 and 5 of _monitor_task: the snapshots are compared and, if there
\* are changes, the notification of them is sent
MonitorAnalyze ==
    /\ pc = "idle"
    /\ op = "none"
    /\ \E modelOrder \in Orderings(ModelIds), symbolOrder \in Orderings(Symbols) :
        trades' = analyze_position_changes(last_data, current_data,
                                           monitored_models, modelOrder,
                                           symbolOrder)
    /\ notified' = (trades' # <<>>)
    /\ pc' = IF trades' # <<>> THEN "analyzed" ELSE "rotate"
    /\ op' = "analyze_position_changes"
    /\ UNCHANGED <<caller, n, i, success_count, failed_count, dry_run,
                   scale_ratio, trade, counted, calls, position, result,
                   close_result, followVars, last_data, current_data,
                   monitored_models, filtered_trades>>
    /\ UNCHANGED multiVars
    /\ UNCHANGED <<cycleVars, notifications>>

\* _execute_bitget_follow_trades(trades) up to the call of the trader
MonitorFollow ==
    /\ pc = "analyzed"
    /\ op' = "_execute_bitget_follow_trades"
    /\ LET enabled == get_enabled(config)
           dry == ConfigManager_is_dry_run(config)
           kept == FilterWhitelisted(trades, config)
           runs == enabled /\ kept # <<>>
       IN  /\ filtered_trades' = IF enabled THEN kept ELSE <<>>
           /\ is_dry_run' = (enabled /\ dry)
           /\ scale_ratio' = IF runs THEN get_scale_ratio(config)
                             ELSE scale_ratio
           /\ pc' = IF runs /\ ~dry THEN "exec" ELSE "rotate"
           /\ caller' = IF runs /\ ~dry THEN "monitor" ELSE caller
           /\ n' = IF runs /\ ~dry THEN Len(kept) ELSE n
           /\ result' = IF runs /\ dry
                        THEN [returned |-> TRUE, success |-> Len(kept),
                              failed |-> 0]
                        ELSE result
    /\ dry_run' = FALSE
    /\ i' = 0
    /\ success_count' = 0
    /\ failed_count' = 0
    /\ UNCHANGED <<trade, counted, calls, position, close_result, config,
                   replaced, platforms, received, checked, models, results,
                   last_data, current_data, monitored_models, trades,
                   notified>>
    /\ UNCHANGED multiVars
    /\ UNCHANGED <<cycleVars, notifications>>

\* "for i, trade in enumerate(trades, 1)" on the intents handed over
MonitorNextTrade ==
    /\ pc = "exec"
    /\ caller = "monitor"
    /\ i < n
    /\ pc' = "body"
    /\ trade' = ReadTrade(filtered_trades[i + 1])
    /\ counted' = None
    /\ calls' = <<>>
    /\ UNCHANGED <<caller, op, n, i, success_count, failed_count, dry_run,
                   scale_ratio, position, result, close_result, followVars,
                   detectVars>>
    /\ UNCHANGED multiVars
    /\ UNCHANGED <<cycleVars, notifications>>

\* execute_trades returns to _execute_bitget_follow_trades
MonitorReturn ==
    /\ pc = "exec"
    /\ caller = "monitor"
    /\ i = n
    /\ pc' = "rotate"
    /\ result' = [returned |-> TRUE, success |-> success_count,
                  failed |-> failed_count]
    /\ UNCHANGED <<caller, op, n, i, success_count, failed_count, dry_run,
                   scale_ratio, trade, counted, calls, position,
                   close_result, followVars, detectVars>>
    /\ UNCHANGED multiVars
    /\ UNCHANGED <<cycleVars, notifications>>

\* step 6 of _monitor_task: rename_current_to_last
MonitorRotate ==
    /\ pc = "rotate"
    /\ pc' = "done"
    /\ last_data' = current_data
    /\ UNCHANGED <<caller, op, n, i, success_count, failed_count, dry_run,
                   scale_ratio, trade, counted, calls, position, result,
                   close_result, followVars, current_data, monitored_models,
                   trades, filtered_trades, notified>>
    /\ UNCHANGED multiVars
    /\ UNCHANGED <<cycleVars, notifications>>

NextMonitor ==
    \/ MonitorAnalyze
    \/ MonitorFollow
    \/ MonitorNextTrade
    \/ ExecuteTradesBody
    \/ MonitorReturn
    \/ MonitorRotate

SpecMonitor == InitMonitor /\ [][NextMonitor]_vars

(***************************************************************************)
(* State machine of the multi-mode trader.  It is called directly          *)
(* (execute_trades, place_order, close_all_positions), and by              *)
(* FollowTradeManager.execute_follow_trades as the executor of the first   *)
(* of two registered platforms; the executor of the second platform is a   *)
(* single BitgetTraderCCXT (scale_ratio, position).                        *)
(***************************************************************************)
\* the variables of the other state machines that this one leaves alone
restVars == <<pc, caller, op, n, i, success_count, failed_count, dry_run,
              trade, counted, close_result, config, replaced, platforms,
              received, checked, models, results, detectVars>>

\* the configurations a follow cycle over the two platforms runs under
MultiConfigs ==
    [enabled : {TRUE}, scale_ratio : MultiRatios, whitelist_models : {{}},
     dry_run : BOOLEAN]

\* BitgetMultiModeTrader(mode, ..., scale_ratio): the traders its mode needs
InitDispatcher ==
    /\ pc = "idle"
    /\ caller = "none"
    /\ op = "none"
    /\ n = 0
    /\ i = 0
    /\ success_count = 0
    /\ failed_count = 0
    /\ dry_run = FALSE
    /\ trade = NoTrade
    /\ counted = None
    /\ calls = <<>>
    /\ position = 0
    /\ result = NoResult
    /\ close_result = FALSE
    /\ replaced = default_config
    /\ platforms = TRUE
    /\ received = <<>>
    /\ checked = 0
    /\ models = <<>>
    /\ is_dry_run = FALSE
    /\ results = NoResult
    /\ last_data = NoSnapshot
    /\ current_data = NoSnapshot
    /\ monitored_models = {}
    /\ trades = <<>>
    /\ filtered_trades = <<>>
    /\ notified = FALSE
    /\ mode \in Modes
    /\ \E ratio \in {default_config.scale_ratio} :
        /\ scale_ratio = ratio
        /\ multi_scale_ratio = ratio
        /\ demo_trader = IF mode = MODE_DEMO_ONLY \/ mode = MODE_BOTH
                         THEN Trader(ratio) ELSE NoTrader
        /\ live_trader = IF mode = MODE_LIVE_ONLY \/ mode = MODE_BOTH
                         THEN Trader(ratio) ELSE NoTrader
    /\ multi_pc = "idle"
    /\ multi_caller = "none"
    /\ multi_op = "none"
    /\ multi_trades = <<>>
    /\ multi_dry_run = FALSE
    /\ multi_results = NoResults
    /\ multi_return = NoReturn
    /\ platform_results = [multi |-> NoPlatformResult,
                           single |-> NoPlatformResult]
    /\ NoCycle

\* the dispatcher on its own: no platform is registered
InitMulti ==
    /\ InitDispatcher
    /\ config = Written(default_config)
    /\ environment \in [demo : Behaviours, live : Behaviours, single : {"ok"}]
    /\ enabled_platforms = [multi |-> FALSE, single |-> FALSE]
    /\ notifier = "ok"

\* the dispatcher and a single trader as the executors of two platforms
InitPlatforms ==
    /\ InitDispatcher
    /\ \E doc \in MultiConfigs : config = Written(doc)
    /\ environment \in [demo : Behaviours, live : Behaviours,
                        single : Behaviours]
    /\ enabled_platforms \in [multi : BOOLEAN, single : BOOLEAN]
    /\ notifier \in Behaviours

\* a trader that the operation now starting has not called yet
Fresh(trader) == [trader EXCEPT !.reached = FALSE, !.calls = <<>>]

\* the except clause of the platform loop:
\* "results[platform_name] = {'success': 0, 'failed': len(filtered_trades),
\*  'error': str(e)}", without the entry
PlatformFailedLost(k) == NoPlatformResult

\* the except clause of the platform loop
PlatformFailed(k) == [returned |-> TRUE, success |-> 0, failed |-> k,
                      error |-> TRUE]

\* "results[platform_name] = result" with an executor's result
PlatformResult(r) == [returned |-> TRUE, success |-> r.success,
                      failed |-> r.failed, error |-> FALSE]

\* a caller (the test script) calls the dispatcher's
\* execute_trades(trades, dry_run)
MultiCallExecuteTrades ==
    /\ multi_pc = "idle"
    /\ multi_trades' \in MultiBatches
    /\ multi_dry_run' \in BOOLEAN
    /\ multi_pc' = "demo"
    /\ multi_caller' = "direct"
    /\ multi_op' = "execute_trades"
    /\ multi_results' = NoResults
    /\ multi_return' = NoReturn
    /\ demo_trader' = Fresh(demo_trader)
    /\ live_trader' = Fresh(live_trader)
    /\ UNCHANGED <<mode, multi_scale_ratio, environment, enabled_platforms,
                   platform_results, scale_ratio, position, calls, result,
                   is_dry_run, restVars>>
    /\ UNCHANGED <<cycleVars, notifications>>

\* the demo part of the dispatcher's execute_trades; nothing in the
\* dispatcher catches an exception of demo_trader.execute_trades, so it
\* reaches the dispatcher's caller
MultiDemo ==
    /\ multi_pc = "demo"
    /\ \E r \in {RunTrader(demo_trader, environment.demo, multi_trades,
                            multi_dry_run)} :
       LET raised == DemoActive /\ r.raised
       IN  /\ demo_trader' = IF DemoActive THEN r.trader ELSE demo_trader
           /\ multi_results' =
                  IF DemoActive /\ ~r.raised
                  THEN [multi_results EXCEPT !.demo = r.result]
                  ELSE multi_results
           /\ multi_return' =
                  IF raised THEN [NoReturn EXCEPT !.raised = TRUE]
                  ELSE multi_return
           /\ platform_results' =
                  IF raised /\ multi_caller = "follow"
                  THEN [platform_results EXCEPT
                           !.multi = PlatformFailed(Len(multi_trades))]
                  ELSE platform_results
           /\ multi_pc' = IF ~raised THEN "live"
                          ELSE IF multi_caller = "follow" THEN "single"
                          ELSE "idle"
    /\ UNCHANGED <<mode, live_trader, multi_scale_ratio, environment,
                   multi_caller, multi_op, multi_trades, multi_dry_run,
                   enabled_platforms, scale_ratio, position, calls, result,
                   is_dry_run, restVars>>
    /\ UNCHANGED <<cycleVars, notifications>>

\* the live part of the dispatcher's execute_trades
MultiLive ==
    /\ multi_pc = "live"
    /\ \E r \in {RunTrader(live_trader, environment.live, multi_trades,
                            multi_dry_run)} :
       LET raised == LiveActive /\ r.raised
       IN  /\ live_trader' = IF LiveActive THEN r.trader ELSE live_trader
           /\ multi_results' =
                  IF LiveActive /\ ~r.raised
                  THEN [multi_results EXCEPT !.live = r.result]
                  ELSE multi_results
           /\ multi_return' =
                  IF raised THEN [NoReturn EXCEPT !.raised = TRUE]
                  ELSE multi_return
           /\ platform_results' =
                  IF raised /\ multi_caller = "follow"
                  THEN [platform_results EXCEPT
                           !.multi = PlatformFailed(Len(multi_trades))]
                  ELSE platform_results
           /\ multi_pc' = IF ~raised THEN "sum"
                          ELSE IF multi_caller = "follow" THEN "single"
                          ELSE "idle"
    /\ UNCHANGED <<mode, demo_trader, multi_scale_ratio, environment,
                   multi_caller, multi_op, multi_trades, multi_dry_run,
                   enabled_platforms, scale_ratio, position, calls, result,
                   is_dry_run, restVars>>
    /\ UNCHANGED <<cycleVars, notifications>>

\* the totals and the return of the dispatcher's execute_trades.  The
\* returned dict has no key 'success': when FollowTradeManager is the caller,
\* its "result['success']" raises KeyError and the except clause of the
\* platform loop replaces the platform's entry.
MultiReturn ==
    /\ multi_pc = "sum"
    /\ multi_return' = [returned |-> TRUE, raised |-> FALSE,
                        total_success |-> Total(multi_results, "success"),
                        total_failed |-> Total(multi_results, "failed")]
    /\ platform_results' =
           IF multi_caller = "follow"
           THEN [platform_results EXCEPT
                    !.multi = PlatformFailed(Len(multi_trades))]
           ELSE platform_results
    /\ multi_pc' = IF multi_caller = "follow" THEN "single" ELSE "idle"
    /\ UNCHANGED notifications
    /\ UNCHANGED <<mode, demo_trader, live_trader, multi_scale_ratio,
                   environment, multi_caller, multi_op, multi_trades,
                   multi_dry_run, multi_results, enabled_platforms,
                   scale_ratio, position, calls, result, is_dry_run,
                   restVars>>
    /\ UNCHANGED cycleVars

\* trader.place_order(...) of one market order of the smallest tradable
\* amount, when the trader is active
PlaceOrderOn(trader, active, behaviour, side, reduceOnly) ==
    LET order == place_order(trader.position, side, MinTradable, reduceOnly,
                             behaviour = "ok")
    IN  IF active
        THEN [trader EXCEPT !.reached = TRUE, !.calls = order.calls,
                            !.position = order.pos]
        ELSE Fresh(trader)

\* a caller calls the dispatcher's place_order
MultiPlaceOrder ==
    /\ multi_pc = "idle"
    /\ \E side \in {"buy", "sell"}, reduceOnly \in BOOLEAN :
        /\ demo_trader' = PlaceOrderOn(demo_trader, DemoActive,
                                       environment.demo, side, reduceOnly)
        /\ live_trader' = PlaceOrderOn(live_trader, LiveActive,
                                       environment.live, side, reduceOnly)
    /\ multi_caller' = "direct"
    /\ multi_op' = "place_order"
    /\ multi_trades' = <<>>
    /\ multi_results' = NoResults
    /\ multi_return' = NoReturn
    /\ UNCHANGED <<mode, multi_scale_ratio, environment, multi_pc,
                   multi_dry_run, enabled_platforms, platform_results,
                   scale_ratio, position, calls, result, is_dry_run,
                   restVars>>
    /\ UNCHANGED <<cycleVars, notifications>>

\* trader.close_all_positions(symbol, side), when the trader is active
CloseAllOn(trader, active, behaviour, side) ==
    LET r == close_all_positions(side, trader.position, behaviour = "ok",
                                 behaviour = "ok")
    IN  IF active
        THEN [trader EXCEPT !.reached = TRUE, !.calls = r.calls,
                            !.position = r.pos]
        ELSE Fresh(trader)

\* a caller calls the dispatcher's close_all_positions
MultiCloseAllPositions ==
    /\ multi_pc = "idle"
    /\ \E side \in {None, "long", "short"} :
        /\ demo_trader' = CloseAllOn(demo_trader, DemoActive,
                                     environment.demo, side)
        /\ live_trader' = CloseAllOn(live_trader, LiveActive,
                                     environment.live, side)
    /\ multi_caller' = "direct"
    /\ multi_op' = "close_all_positions"
    /\ multi_trades' = <<>>
    /\ multi_results' = NoResults
    /\ multi_return' = NoReturn
    /\ UNCHANGED <<mode, multi_scale_ratio, environment, multi_pc,
                   multi_dry_run, enabled_platforms, platform_results,
                   scale_ratio, position, calls, result, is_dry_run,
                   restVars>>
    /\ UNCHANGED <<cycleVars, notifications>>

\* execute_follow_trades(trades) up to the platform loop: some platform is
\* enabled, following is enabled, is_dry_run is read, and the whitelist
\* (empty here) keeps every intent
MultiFollow ==
    /\ multi_pc = "idle"
    /\ multi_trades' \in MultiBatches
    /\ multi_caller' = "follow"
    /\ multi_op' = "execute_follow_trades"
    /\ is_dry_run' = ConfigManager_is_dry_run(config)
    /\ platform_results' = [multi |-> NoPlatformResult,
                            single |-> NoPlatformResult]
    /\ multi_results' = NoResults
    /\ multi_return' = NoReturn
    /\ demo_trader' = Fresh(demo_trader)
    /\ live_trader' = Fresh(live_trader)
    /\ calls' = <<>>
    /\ result' = NoResult
    /\ notifications' = NoNotifications
    /\ multi_pc' = IF /\ enabled_platforms.multi \/ enabled_platforms.single
                      /\ get_enabled(config)
                      /\ multi_trades' # <<>>
                   THEN "multi" ELSE "idle"
    /\ UNCHANGED <<mode, multi_scale_ratio, environment, multi_dry_run,
                   enabled_platforms, scale_ratio, position, restVars>>
    /\ UNCHANGED cycleVars

\* the platform loop's body for the first platform, up to the call of
\* executor.execute_trades(filtered_trades): the dispatcher
PlatformMulti ==
    /\ multi_pc = "multi"
    /\ multi_scale_ratio' = IF enabled_platforms.multi
                            THEN get_scale_ratio(config)
                            ELSE multi_scale_ratio
    /\ platform_results' =
           IF enabled_platforms.multi /\ is_dry_run
           THEN [platform_results EXCEPT
                    !.multi = IF NotificationEscapes(notifier)
                              THEN PlatformFailed(Len(multi_trades))
                              ELSE [returned |-> TRUE,
                                    success |-> Len(multi_trades),
                                    failed |-> 0, error |-> FALSE]]
           ELSE platform_results
    /\ notifications' =
           IF enabled_platforms.multi /\ is_dry_run
           THEN [notifications EXCEPT !.multi = Delivery(notifier)]
           ELSE notifications
    /\ multi_pc' = IF enabled_platforms.multi /\ ~is_dry_run
                   THEN "demo" ELSE "single"
    /\ multi_dry_run' = FALSE
    /\ UNCHANGED <<mode, demo_trader, live_trader, environment, multi_caller,
                   multi_op, multi_trades, multi_results, multi_return,
                   enabled_platforms, scale_ratio, position, calls, result,
                   is_dry_run, restVars>>
    /\ UNCHANGED cycleVars

\* the platform loop's body for the second platform, a BitgetTraderCCXT, and
\* the return of execute_follow_trades
PlatformSingle ==
    /\ multi_pc = "single"
    /\ \E e \in {execute_trades(multi_trades, get_scale_ratio(config),
                                 FALSE, position,
                                 environment.single = "ok")} :
       LET ratio == get_scale_ratio(config)
           run == enabled_platforms.single /\ ~is_dry_run
           raised == environment.single = "raises"
       IN  /\ scale_ratio' = IF enabled_platforms.single
                             THEN ratio ELSE scale_ratio
           /\ position' = IF run /\ ~raised THEN e.pos ELSE position
           /\ calls' = IF run /\ ~raised THEN e.calls ELSE calls
           /\ result' = IF run /\ ~raised
                        THEN [returned |-> TRUE, success |-> e.success,
                              failed |-> e.failed]
                        ELSE result
           /\ platform_results' =
                  IF ~enabled_platforms.single THEN platform_results
                  ELSE IF is_dry_run
                  THEN [platform_results EXCEPT
                           !.single = [returned |-> TRUE,
                                       success |-> Len(multi_trades),
                                       failed |-> 0, error |-> FALSE]]
                  ELSE IF raised
                  THEN [platform_results EXCEPT
                           !.single = PlatformFailed(Len(multi_trades))]
                  ELSE IF NotificationEscapes(notifier)
                  THEN [platform_results EXCEPT
                           !.single = PlatformFailed(Len(multi_trades))]
                  ELSE [platform_results EXCEPT
                           !.single = PlatformResult(e)]
           /\ notifications' =
                  IF enabled_platforms.single /\ (is_dry_run \/ ~raised)
                  THEN [notifications EXCEPT !.single = Delivery(notifier)]
                  ELSE notifications
    /\ multi_pc' = "idle"
    /\ UNCHANGED <<mode, demo_trader, live_trader, multi_scale_ratio,
                   environment, multi_caller, multi_op, multi_trades,
                   multi_dry_run, multi_results, multi_return,
                   enabled_platforms, is_dry_run, restVars>>
    /\ UNCHANGED cycleVars

NextMulti ==
    \/ MultiCallExecuteTrades
    \/ MultiDemo
    \/ MultiLive
    \/ MultiReturn
    \/ MultiPlaceOrder
    \/ MultiCloseAllPositions

SpecMulti == InitMulti /\ [][NextMulti]_vars

NextPlatforms ==
    \/ MultiFollow
    \/ PlatformMulti
    \/ MultiDemo
    \/ MultiLive
    \/ MultiReturn
    \/ PlatformSingle

SpecPlatforms == InitPlatforms /\ [][NextPlatforms]_vars

(***************************************************************************)
(* Properties of the router                                                *)
(***************************************************************************)
\* the last intent taken from the batch has been routed: trade, counted and
\* calls describe it
Routed == pc = "exec" /\ i > 0

MissingTarget(v) == v = None \/ v = NA

IsOrder(c) == c.call = "create_order"
IsEntry(c) == IsOrder(c) /\ c.trigger = None
IsProtective(c) == IsOrder(c) /\ c.trigger # None
Opposite(side) == IF side = "buy" THEN "sell" ELSE "buy"

\* the scaled quantity is <= 0 or below the minimum tradable amount
SubThreshold == trade.quantity * scale_ratio <= 0
                \/ trade.quantity * scale_ratio < MinTradable

\* C1 as stated.  Risk gate: an Open intent routed with dry-run off whose
\* take-profit or stop-loss is absent or 'N/A' makes the router submit no
\* order at all and is counted as failed.
C1_RiskGateAlwaysFailed ==
    (/\ Routed
     /\ ~dry_run
     /\ is_open(trade.action)
     /\ (MissingTarget(trade.profit_target) \/ MissingTarget(trade.stop_loss)))
    => (calls = <<>> /\ counted = "failed")

\* C1 amended.  Such an intent never makes the router submit an order; it is
\* counted as failed when its scaled quantity is tradable (> 0 and at least
\* 0.0001), and skipped as success when it is not, because the quantity
\* checks precede the risk gate.
C1_RiskGate ==
    (/\ Routed
     /\ ~dry_run
     /\ is_open(trade.action)
     /\ (MissingTarget(trade.profit_target) \/ MissingTarget(trade.stop_loss)))
    => /\ calls = <<>>
       /\ counted = IF SubThreshold THEN "success" ELSE "failed"

C1_Witness ==
    /\ Routed
    /\ ~dry_run
    /\ trade.action = OpenLong
    /\ trade.profit_target = None
    /\ trade.stop_loss = Price
    /\ ~SubThreshold
    /\ calls = <<>>
    /\ counted = "failed"

\* C2.  Submission order for Open: the market entry is the first order
\* submitted; if it fails no protective order is submitted and the intent is
\* counted failed; if it succeeds, a stop-loss trigger order (and, for an
\* intent that has a take-profit, a take-profit trigger order) is submitted
\* on the opposite side with reduce_only = true.
C2_SubmissionOrder ==
    (Routed /\ is_open(trade.action) /\ calls # <<>>)
    => /\ IsEntry(calls[1])
       /\ ~calls[1].reduceOnly
       /\ \A k \in 2..Len(calls) :
            /\ IsProtective(calls[k])
            /\ calls[k].side = Opposite(calls[1].side)
            /\ calls[k].reduceOnly
       /\ ~calls[1].ok => (Len(calls) = 1 /\ counted = "failed")
       /\ calls[1].ok =>
            /\ \E k \in 2..Len(calls) : calls[k].trigger = "stop_loss"
            /\ \E k \in 2..Len(calls) : calls[k].trigger = "take_profit"

\* the case of C2 the code handles: every field well formed
C2_Witness ==
    /\ Routed
    /\ trade.action = OpenShort
    /\ trade.direction = "short"
    /\ Len(calls) = 3
    /\ calls[1].ok /\ calls[1].side = "sell"
    /\ calls[2].trigger = "take_profit" /\ calls[2].side = "buy"
    /\ calls[3].trigger = "stop_loss" /\ calls[3].side = "buy"

\* C3.  Protection failure: an Open whose entry order succeeded and for
\* which no stop-loss order was placed is counted as failed, never as
\* success, whatever happened to the take-profit order.
C3_ProtectionFailure ==
    (/\ Routed
     /\ is_open(trade.action)
     /\ calls # <<>>
     /\ calls[1].ok
     /\ ~\E k \in 2..Len(calls) :
            calls[k].trigger = "stop_loss" /\ calls[k].ok)
    => counted = "failed"

C3_Witness ==
    /\ Routed
    /\ is_open(trade.action)
    /\ Len(calls) = 3
    /\ calls[1].ok
    /\ calls[2].trigger = "take_profit" /\ calls[2].ok
    /\ calls[3].trigger = "stop_loss" /\ ~calls[3].ok
    /\ counted = "failed"

\* C4.  No short-circuiting: every intent of the batch is routed and counted
\* exactly once, so success_count + failed_count is the number of intents
\* routed so far and, in the returned result, the batch size n.
C4_NoShortCircuit ==
    /\ pc \in {"exec", "body"} => success_count + failed_count = i
    /\ Routed => counted \in {"success", "failed"}
    /\ (op = "execute_trades" /\ result.returned)
       => (i = n /\ result.success + result.failed = n)

\* a batch of two whose first intent failed and whose second raised after
\* its entry order
C4_Witness ==
    /\ Routed
    /\ i = 2
    /\ failed_count = 2
    /\ trade.profit_target = Junk
    /\ Len(calls) = 1
    /\ calls[1].ok

C7_SubThreshold ==
    (Routed /\ SubThreshold) => (calls = <<>> /\ counted = "success")

\* 0.0001 coins at a ratio of 1%, dry-run off, on an intent that would
\* otherwise be rejected by the risk gate
C7_Witness ==
    /\ Routed
    /\ ~dry_run
    /\ trade.quantity = 10
    /\ scale_ratio = 1
    /\ trade.action = OpenLong
    /\ trade.profit_target = None
    /\ counted = "success"

\* the direction an action text names, if it names one
TextDirection(action) ==
    IF Has("kong", action) /\ ~Has("duo", action) THEN "short"
    ELSE IF Has("duo", action) /\ ~Has("kong", action) THEN "long"
    ELSE None

\* the held direction an intent states: its direction field, or, without
\* one, the direction its action text names
HeldDirection(t) ==
    IF t.direction # None THEN t.direction ELSE TextDirection(t.action)

\* the direction field, when given, does not contradict the action text
ConsistentDirection(t) ==
    \/ t.direction = None
    \/ TextDirection(t.action) = None
    \/ t.direction = TextDirection(t.action)

SameSide(d) == IF d = "long" THEN "buy" ELSE "sell"

\* C8.  Side mapping: Open long submits buy / hold-long and Open short sell /
\* hold-short; Close and Reduce submit the side opposite to the held
\* direction with reduce_only = true; Add submits the side of the held
\* direction with reduce_only = false.
C8_SideMapping ==
    (Routed /\ calls # <<>> /\ ConsistentDirection(trade))
    => LET order == calls[1]
           d == HeldDirection(trade)
       IN  /\ is_open(trade.action)
              => /\ order.side = SameSide(d)
                 /\ order.holdSide = d
                 /\ ~order.reduceOnly
           /\ (is_close(trade.action) \/ is_reduce(trade.action))
              => /\ order.side = Opposite(SameSide(d))
                 /\ order.reduceOnly
           /\ is_add(trade.action)
              => /\ order.side = SameSide(d)
                 /\ ~order.reduceOnly

\* the case of C8 the code handles: the direction field is given
C8_Witness ==
    /\ Routed
    /\ trade.action = ReduceShort
    /\ trade.direction = "short"
    /\ Len(calls) = 1
    /\ calls[1].side = "buy"
    /\ calls[1].reduceOnly
    /\ calls[1].holdSide = "short"

\* C9.  Close sizing: the closing order the router submits for a Close
\* intent has the size a live position query, made while the intent is
\* executed, returned.
C9_CloseSizing ==
    (Routed /\ is_close(trade.action))
    => \A k \in 1..Len(calls) :
         IsOrder(calls[k])
         => \E j \in 1..(k - 1) :
              /\ calls[j].call = "fetch_positions"
              /\ calls[j].ok
              /\ calls[j].amount = calls[k].amount

\* C10.  Idempotent close: closing while the live position is flat submits
\* no order and is reported as success.
C10_IdempotentClose ==
    (/\ op = "close_all_positions"
     /\ calls[1].call = "fetch_positions"
     /\ calls[1].ok
     /\ calls[1].amount = 0)
    => (Len(calls) = 1 /\ close_result)

\* what the code does on a flat position: one query, no order, False
C10_Witness ==
    /\ op = "close_all_positions"
    /\ calls[1].ok
    /\ calls[1].amount = 0
    /\ Len(calls) = 1
    /\ ~close_result
    /\ position = 0

(***************************************************************************)
(* Properties of the follow manager                                        *)
(***************************************************************************)
\* the whitelist of a configuration document lets the model through
Whitelists(doc, model_id) ==
    doc.whitelist_models = {} \/ model_id \in doc.whitelist_models

\* C5.  Whitelist filter: an intent is kept for the executors only if its
\* model is let through by a whitelist the configuration holds (the saved
\* one or, while a save is under way, the one being replaced or the one being
\* written); under an empty whitelist every intent is kept; and
\* execute_trades is called with exactly the kept intents.
C5_WhitelistFilter ==
    [][/\ (pc = "filter" /\ Len(models') > Len(models))
          => \/ Whitelists(config.doc, models'[Len(models')])
             \/ ~config.complete
                /\ Whitelists(replaced, models'[Len(models')])
       /\ (pc = "filter" /\ checked' = checked + 1
           /\ config.complete /\ config.doc.whitelist_models = {})
          => models' = Append(models, received[checked'])
       /\ (pc = "platform" /\ pc' = "exec")
          => (n' = Len(models) /\ models' = models)]_vars

\* the filter at work: of two intents one is dropped, one handed over
C5_Witness ==
    /\ pc = "exec"
    /\ caller = "follow"
    /\ Len(received) = 2
    /\ Len(models) = 1
    /\ n = 1
    /\ config.complete
    /\ config.doc.whitelist_models = {"modelA"}
    /\ models = <<"modelA">>

(***************************************************************************)
(* Properties of the detector and of its hand-off to the router            *)
(***************************************************************************)
\* the router, called by the monitor, has routed filtered_trades[i]
MonitorRouted == pc = "exec" /\ caller = "monitor" /\ i > 0

\* C11.  End-to-end scaling: for an Add or Reduce intent of the detector (a
\* position_changed intent with a non-zero quantity change) routed with
\* dry-run off, the router submits one order whose amount is the quantity
\* change times scale_ratio, whenever that product reaches 0.0001.
C11_EndToEndScaling ==
    (/\ MonitorRouted
     /\ ~dry_run
     /\ filtered_trades[i].type = "position_changed"
     /\ filtered_trades[i].quantity_change # 0
     /\ filtered_trades[i].quantity_change * scale_ratio >= MinTradable)
    => /\ Len(calls) = 1
       /\ IsEntry(calls[1])
       /\ calls[1].amount = filtered_trades[i].quantity_change * scale_ratio

\* what the router does with the detector's Add: it reads no quantity and
\* skips the intent
C11_Witness ==
    /\ MonitorRouted
    /\ filtered_trades[i].type = "position_changed"
    /\ filtered_trades[i].action = AddBuyLong
    /\ filtered_trades[i].quantity_change = 1000
    /\ scale_ratio = 100
    /\ trade.quantity = 0
    /\ calls = <<>>
    /\ counted = "success"

\* C12.  Action hand-off: the router handles every position_opened intent of
\* the detector as an Open, with the intent's take-profit and stop-loss at
\* the risk gate, and every position_closed intent as a Close; none of them
\* is skipped as zero-quantity or fails as an unrecognized operation.
C12_ActionHandOff ==
    (MonitorRouted
     /\ filtered_trades[i].type \in {"position_opened", "position_closed"})
    => /\ filtered_trades[i].type = "position_opened"
          => /\ is_open(trade.action)
             /\ MissingTarget(trade.profit_target)
                <=> MissingTarget(filtered_trades[i].tp)
             /\ MissingTarget(trade.stop_loss)
                <=> MissingTarget(filtered_trades[i].sl)
       /\ filtered_trades[i].type = "position_closed"
          => is_close(trade.action)
       /\ ~SkipsZero(trade.quantity, trade.quantity * scale_ratio)

\* what the router does with the detector's position_opened: it recognises
\* no operation in the text and counts a failure
C12_Witness ==
    /\ MonitorRouted
    /\ filtered_trades[i].type = "position_opened"
    /\ trade.action = BuyLong
    /\ filtered_trades[i].tp = Price
    /\ trade.profit_target = None
    /\ calls = <<>>
    /\ counted = "failed"

(***************************************************************************)
(* Properties of the multi-mode trader                                     *)
(***************************************************************************)
\* the dispatcher's execute_trades is running both environments
DualExecute ==
    /\ mode = MODE_BOTH
    /\ multi_op \in {"execute_trades", "execute_follow_trades"}

DemoRejectsLiveRuns ==
    (/\ mode = MODE_BOTH
     /\ multi_op = "execute_trades"
     /\ multi_return.returned
     /\ environment.demo = "fails")
    => /\ live_trader.reached
       /\ multi_results.live.returned
       /\ multi_results.live.success + multi_results.live.failed
              = Len(multi_trades)

\* C14: Dispatcher aggregation.  When the dispatcher's execute_trades
\* returns, the environments with an entry in its results are exactly those
\* whose trader was called, total_success is the sum of their success counts
\* and total_failed the sum of their failed counts.
C14_Aggregation ==
    multi_return.returned =>
        /\ multi_results.demo.returned = demo_trader.reached
        /\ multi_results.live.returned = live_trader.reached
        /\ multi_return.total_success =
               (IF demo_trader.reached THEN multi_results.demo.success ELSE 0)
               + (IF live_trader.reached
                  THEN multi_results.live.success ELSE 0)
        /\ multi_return.total_failed =
               (IF demo_trader.reached THEN multi_results.demo.failed ELSE 0)
               + (IF live_trader.reached
                  THEN multi_results.live.failed ELSE 0)

\* both environments executed, with different outcomes, and the totals
\* hold counts of both
C14_Witness ==
    /\ multi_return.returned
    /\ mode = MODE_BOTH
    /\ multi_results.demo.success > 0
    /\ multi_results.live.failed > 0
    /\ multi_results.demo.success # multi_results.live.success
    /\ multi_return.total_success > 0
    /\ multi_return.total_failed > 0

\* a dispatcher operation has ended (returned or raised)
MultiEnded ==
    /\ multi_pc = "idle"
    /\ multi_caller = "direct"
    /\ multi_op \in {"execute_trades", "place_order", "close_all_positions"}

GatesHold ==
    /\ mode = MODE_DEMO_ONLY => (~live_trader.reached /\ live_trader.calls = <<>>)
    /\ mode = MODE_LIVE_ONLY => (~demo_trader.reached /\ demo_trader.calls = <<>>)
    /\ (mode = MODE_BOTH /\ MultiEnded /\ ~multi_return.raised)
        => (demo_trader.reached /\ live_trader.reached)

(***************************************************************************)
(* Properties of the platform loop                                         *)
(***************************************************************************)
\* every order among the calls cs is sized as an intent of the cycle scaled
\* with ratio
SizedWith(cs, ratio) ==
    \A k \in 1..Len(cs) :
        \E j \in 1..Len(multi_trades) :
            cs[k].amount = ScaledQuantity(multi_trades[j].quantity, ratio)

\* C16: Late-bound configuration.  Every order a follow cycle submits, on
\* the single trader and on the demo and the live trader behind the
\* multi-mode trader, is sized with the scale_ratio the configuration holds
\* in that cycle.
C16_LateBoundRatio ==
    multi_op = "execute_follow_trades" =>
        /\ SizedWith(calls, get_scale_ratio(config))
        /\ SizedWith(demo_trader.calls, get_scale_ratio(config))
        /\ SizedWith(live_trader.calls, get_scale_ratio(config))

\* the configuration holds a ratio other than the one the traders were
\* built with; the cycle set it on the multi-mode trader and on the single
\* trader, whose order has the new size, and the demo trader submitted an
\* order of the old size
C16_Witness ==
    /\ multi_op = "execute_follow_trades"
    /\ multi_pc = "idle"
    /\ get_scale_ratio(config) # default_config.scale_ratio
    /\ multi_scale_ratio = get_scale_ratio(config)
    /\ scale_ratio = get_scale_ratio(config)
    /\ calls # <<>>
    /\ SizedWith(calls, get_scale_ratio(config))
    /\ demo_trader.calls # <<>>
    /\ demo_trader.scale_ratio = default_config.scale_ratio
    /\ SizedWith(demo_trader.calls, default_config.scale_ratio)

\* execute_follow_trades has returned after its platform loop
CycleDone ==
    /\ multi_op = "execute_follow_trades"
    /\ multi_pc = "idle"
    /\ get_enabled(config)
    /\ multi_trades # <<>>
    /\ enabled_platforms.multi \/ enabled_platforms.single

\* The try block of the first platform raised: an exception left the
\* dispatcher, or its result had no key 'success'.
MultiRaised == enabled_platforms.multi /\ ~is_dry_run

\* the try block of the second platform raised
SingleRaised ==
    enabled_platforms.single /\ ~is_dry_run /\ environment.single = "raises"

\* C18: Per-platform fatal isolation.  When the execution on an enabled
\* platform raises, its entry is success 0, failed = number of filtered
\* intents; every other enabled platform is still executed and has its own
\* entry, which for a trader that returned is what the trader returned.
C18_PlatformIsolation ==
    CycleDone =>
        /\ MultiRaised =>
               platform_results.multi =
                   [returned |-> TRUE, success |-> 0,
                    failed |-> Len(multi_trades), error |-> TRUE]
        /\ SingleRaised =>
               platform_results.single =
                   [returned |-> TRUE, success |-> 0,
                    failed |-> Len(multi_trades), error |-> TRUE]
        /\ enabled_platforms.multi => platform_results.multi.returned
        /\ enabled_platforms.single => platform_results.single.returned
        /\ (enabled_platforms.single /\ ~is_dry_run /\ ~SingleRaised) =>
               /\ result.returned
               /\ result.success + result.failed = Len(multi_trades)
               /\ platform_results.single =
                      [returned |-> TRUE, success |-> result.success,
                       failed |-> result.failed, error |-> FALSE]

\* the demo trader behind the first platform raised, the first platform's
\* entry is wholly failed, and the second platform executed with a success
C18_Witness ==
    /\ CycleDone
    /\ enabled_platforms.multi
    /\ enabled_platforms.single
    /\ environment.demo = "raises"
    /\ demo_trader.reached
    /\ platform_results.multi.error
    /\ platform_results.multi.failed = Len(multi_trades)
    /\ platform_results.single.success > 0
    /\ ~platform_results.single.error

(***************************************************************************)
(* Properties of the monitor cycle                                         *)
(***************************************************************************)
\* C17: Disabled follow.  In a cycle whose configuration has enabled=false
\* the trader's execute_trades is never entered and no order is submitted,
\* while the detector has run on the two snapshots and the position-change
\* notification was sent whenever it found a change.
C17_DisabledFollow ==
    ~config.doc.enabled =>
        /\ pc \notin {"exec", "body"}
        /\ caller # "monitor"
        /\ calls = <<>>
        /\ position = 0
        /\ ~result.returned
        /\ pc \in {"analyzed", "rotate"} =>
               /\ \E modelOrder \in Orderings(ModelIds),
                      symbolOrder \in Orderings(Symbols) :
                      trades = analyze_position_changes(
                                   last_data, current_data, monitored_models,
                                   modelOrder, symbolOrder)
               /\ notified = (trades # <<>>)
        /\ pc = "done" => notified = (trades # <<>>)

\* a cycle with following disabled found changes, notified them, went
\* through _execute_bitget_follow_trades and ended without an order
C17_Witness ==
    /\ ~config.doc.enabled
    /\ pc = "done"
    /\ op = "_execute_bitget_follow_trades"
    /\ trades # <<>>
    /\ notified
    /\ calls = <<>>

\* the detector has just returned 'trades' for last_data and current_data
Detected == op = "analyze_position_changes"

\* the elements of a sequence
Elements(seq) == { seq[k] : k \in 1..Len(seq) }

\* C19: Detection determinism and order stability.  Whatever the iteration
\* order of the set of model ids and of the sets of symbols, the detector
\* returns for the same snapshots and the same monitored models the same
\* sequence of intents, element by element (the model has no timestamps).
C19_OrderStability ==
    Detected =>
        \A modelOrder \in Orderings(ModelIds),
           symbolOrder \in Orderings(Symbols) :
            analyze_position_changes(last_data, current_data,
                                     monitored_models, modelOrder,
                                     symbolOrder) = trades

\* the detector returned intents of two models
C19_Witness ==
    /\ Detected
    /\ Len(trades) >= 2
    /\ \E j \in 1..Len(trades), k \in 1..Len(trades) :
           trades[j].model_id # trades[k].model_id

\* Whatever the iteration orders, the detector returns the same intents, as
\* many of them, possibly in another order.
SameIntentsAnyOrder ==
    Detected =>
        \A modelOrder \in Orderings(ModelIds),
           symbolOrder \in Orderings(Symbols) :
            LET other == analyze_position_changes(
                             last_data, current_data, monitored_models,
                             modelOrder, symbolOrder)
            IN  Elements(other) = Elements(trades) /\ Len(other) = Len(trades)

\* the intents of type position_closed for a symbol of a model among ts
ClosedFor(ts, model_id, symbol) ==
    { j \in 1..Len(ts) : /\ ts[j].type = "position_closed"
                         /\ ts[j].model_id = model_id
                         /\ ts[j].symbol = symbol }

\* C20: Open/close symmetry.  When the detector emits position_opened for
\* a position record P (symbol absent from the previous snapshot of a model
\* held by both), then on the two snapshots swapped it emits exactly one
\* position_closed for that symbol, with the direction of the opening,
\* which is the sign of P's quantity, and with the same quantity magnitude.
C20_OpenCloseSymmetry ==
    Detected =>
        \A k \in 1..Len(trades) :
            trades[k].type = "position_opened" =>
                \A modelOrder \in Orderings(ModelIds),
                   symbolOrder \in Orderings(Symbols) :
                    LET opened == trades[k]
                        P == current_data[opened.model_id][opened.symbol]
                        back == analyze_position_changes(
                                    current_data, last_data, monitored_models,
                                    modelOrder, symbolOrder)
                        closed == ClosedFor(back, opened.model_id,
                                            opened.symbol)
                    IN  /\ Cardinality(closed) = 1
                        /\ \A j \in closed :
                               /\ back[j].direction = opened.action
                               /\ (opened.action = BuyLong) = (P.quantity > 0)
                               /\ back[j].last_quantity
                                      \in {opened.quantity, 0 - opened.quantity}
                               /\ opened.quantity >= 0

\* the detector emitted position_opened for a short position
C20_Witness ==
    /\ Detected
    /\ \E k \in 1..Len(trades) :
           /\ trades[k].type = "position_opened"
           /\ trades[k].action = SellShort
           /\ trades[k].quantity > 0
           /\ current_data[trades[k].model_id][trades[k].symbol].quantity < 0

(***************************************************************************)
(* Properties of the detector                                              *)
(***************************************************************************)
\* the intents among ts for a symbol of a model
IntentsFor(ts, model_id, symbol) ==
    { j \in 1..Len(ts) : /\ ts[j].type \in {"position_opened",
                                             "position_closed",
                                             "position_changed"}
                         /\ ts[j].model_id = model_id
                         /\ ts[j].symbol = symbol }

\* a short position held in both snapshots whose absolute size shrank
ShortShrank(model_id, symbol) ==
    /\ model_id \in DOMAIN last_data
    /\ model_id \in DOMAIN current_data
    /\ symbol \in DOMAIN last_data[model_id]
    /\ symbol \in DOMAIN current_data[model_id]
    /\ last_data[model_id][symbol].quantity < 0
    /\ current_data[model_id][symbol].quantity < 0
    /\ current_data[model_id][symbol].quantity
           > last_data[model_id][symbol].quantity

\* C21: Reduce on short.  For a short position held in both snapshots
\* whose absolute size shrank, the detector emits one intent for the
\* symbol, whose action is a reduce (jian) of a short (kong) and whose
\* quantity_change is the absolute difference of the two quantities.
C21_ReduceOnShort ==
    Detected =>
        \A model_id \in ModelIds, symbol \in Symbols :
            (/\ ShortShrank(model_id, symbol)
             /\ (monitored_models = {} \/ model_id \in monitored_models))
            => /\ Cardinality(IntentsFor(trades, model_id, symbol)) = 1
               /\ \A j \in IntentsFor(trades, model_id, symbol) :
                      /\ trades[j].type = "position_changed"
                      /\ is_reduce(trades[j].action)
                      /\ Has("kong", trades[j].action)
                      /\ trades[j].quantity_change =
                             Abs(last_data[model_id][symbol].quantity)
                             - Abs(current_data[model_id][symbol].quantity)

\* the detector returned an intent for a short position that shrank
C21_Witness ==
    /\ Detected
    /\ \E j \in 1..Len(trades) :
           /\ trades[j].type = "position_changed"
           /\ ShortShrank(trades[j].model_id, trades[j].symbol)
           /\ trades[j].action = AddSellShort
           /\ trades[j].quantity_change = MinTradable

\* C22: Allow-list.  When a list of monitored models is given, every intent
\* the detector emits is of a model that is in the list and in one of the
\* two snapshots.
C22_AllowList ==
    (Detected /\ monitored_models # {}) =>
        \A k \in 1..Len(trades) :
            trades[k].model_id \in
                monitored_models \cap (DOMAIN last_data \cup DOMAIN current_data)

\* with modelA alone monitored, a model outside the list appeared in the
\* current snapshot and the detector emitted intents, all of modelA
C22_Witness ==
    /\ Detected
    /\ monitored_models = {"modelA"}
    /\ "modelB" \in DOMAIN current_data
    /\ "modelB" \notin DOMAIN last_data
    /\ trades # <<>>
    /\ \A k \in 1..Len(trades) : trades[k].model_id = "modelA"

(***************************************************************************)
(* A follow cycle over a configuration file that was not written by        *)
(* save_config: bitget_config.json is a plain JSON file, and load_config   *)
(* returns whatever document it holds merged over the defaults.            *)
(***************************************************************************)
InitConfig ==
    /\ pc = "idle"
    /\ caller = "none"
    /\ op = "none"
    /\ n = 0
    /\ i = 0
    /\ success_count = 0
    /\ failed_count = 0
    /\ dry_run = FALSE
    /\ scale_ratio = default_config.scale_ratio
    /\ trade = NoTrade
    /\ counted = None
    /\ calls = <<>>
    /\ position = 0
    /\ result = NoResult
    /\ close_result = FALSE
    /\ config \in { Written(doc) : doc \in Posted }
    /\ replaced = config.doc
    /\ platforms = TRUE
    /\ received = <<>>
    /\ checked = 0
    /\ models = <<>>
    /\ is_dry_run = FALSE
    /\ results = NoResult
    /\ last_data = NoSnapshot
    /\ current_data = NoSnapshot
    /\ monitored_models = {}
    /\ trades = <<>>
    /\ filtered_trades = <<>>
    /\ notified = FALSE
    /\ NoDispatcher
    /\ NoCycle
    /\ notifier = "ok"

SpecConfig == InitConfig /\ [][NextFollow]_vars

(***************************************************************************)
(* Properties of the configuration                                         *)
(***************************************************************************)
\* the executor is running a follow batch with the ratio the platform loop read
FollowSized == caller = "follow" /\ pc = "exec"

\* C24: Config validation.  Whatever document the configuration file holds,
\* the scale ratio the orchestrator reads from it and sets on the executor is
\* in (0, 1] (here in percent, 1..100), an invalid persisted value being
\* replaced by the default.
C24_ConfigValidation ==
    FollowSized => (0 < scale_ratio /\ scale_ratio <= 100)

\* the file holds a complete document whose scale_ratio is 2.0, and the
\* executor is running a follow batch with that ratio
C24_Witness ==
    /\ FollowSized
    /\ config.complete
    /\ config.doc.scale_ratio = 200
    /\ scale_ratio = 200

(***************************************************************************)
(* Properties of the notifications                                         *)
(***************************************************************************)
\* C25: Notification regardless of outcome.  When execute_follow_trades
\* has gone through its platform loop (notification_on_trade has its
\* default, true), a notification was attempted for every enabled platform,
\* whatever its executor did.
C25_NotifyRegardless ==
    CycleDone =>
        \A platform_name \in {"multi", "single"} :
            enabled_platforms[platform_name]
            => notifications[platform_name] # "none"

\* the executor of the second platform raised: the platform is recorded as
\* failed and no notification was attempted for it
C25_Witness ==
    /\ CycleDone
    /\ enabled_platforms.single
    /\ ~is_dry_run
    /\ environment.single = "raises"
    /\ platform_results.single = PlatformFailed(Len(multi_trades))
    /\ notifications.single = "none"

(***************************************************************************)
(* State machine of the monitoring process with its files.                 *)
(* start_monitoring runs _monitor_task from its loop, one run at a time;   *)
(* the task fetches a snapshot, saves it as current.json, loads last.json, *)
(* compares the two, notifies, follows, and renames current.json to        *)
(* last.json.  The web process reads last.json whenever it is asked to.    *)
(***************************************************************************)
\* the variables that a run of _monitor_task leaves alone
cycleRest == <<caller, op, n, i, success_count, failed_count, dry_run, trade, counted, close_result, config, replaced, platforms, received, checked, models, results, monitored_models, notifier, multiVars>>

\* the snapshots the API returns: modelA with one BTC position
CycleSnapshots == { [m \in {"modelA"} |-> [s \in {"BTC"} |-> r]] : r \in {LongSmall, LongBig, ShortSmall} }

\* the configurations a run of the process is under
CycleConfigs == [enabled : BOOLEAN, scale_ratio : {100}, whitelist_models : {{}}, dry_run : BOOLEAN]

\* a test that lets every document through
FalsyNever(data) == FALSE

\* "if not current_data": None and an empty document
Falsy(data) == data = NoSnapshot

\* where the except clause of _execute_bitget_follow_trades leaves the
\* process without the clause: the exception ends the loop of
\* start_monitoring
FollowExceptStops == "stopped"

\* the except clause of _execute_bitget_follow_trades logs the exception and
\* returns; _monitor_task goes on with rename_current_to_last
FollowExcept == "rotate"

\* the intents as execute_trades reads them
ReadTrades(ts) == [k \in 1..Len(ts) |-> ReadTrade(ts[k])]

InitCycle ==
    /\ pc = "idle"
    /\ caller = "none"
    /\ op = "none"
    /\ n = 0
    /\ i = 0
    /\ success_count = 0
    /\ failed_count = 0
    /\ dry_run = FALSE
    /\ scale_ratio = 100
    /\ trade = NoTrade
    /\ counted = None
    /\ calls = <<>>
    /\ position = 0
    /\ result = NoResult
    /\ close_result = FALSE
    /\ \E doc \in CycleConfigs : config = Written(doc)
    /\ replaced = default_config
    /\ platforms = TRUE
    /\ received = <<>>
    /\ checked = 0
    /\ models = <<>>
    /\ is_dry_run = FALSE
    /\ results = NoResult
    /\ last_data = NoSnapshot
    /\ current_data = NoSnapshot
    /\ monitored_models = {}
    /\ trades = <<>>
    /\ filtered_trades = <<>>
    /\ notified = FALSE
    /\ NoDispatcher
    /\ last_json \in {NoFile} \cup { Complete(data) : data \in CycleSnapshots }
    /\ current_json = NoFile
    /\ served = NotServed
    /\ cycle = "none"
    /\ notifier \in Behaviours
    /\ notifications = NoNotifications
    /\ processed = load_positions(last_json)

\* schedule.run_pending() calls _monitor_task; step 1: fetch_positions,
\* which returns None on any error, and "if not current_data: return"
MonitorTask ==
    /\ pc = "idle"
    /\ \E data \in CycleSnapshots \cup {NoSnapshot} :
        /\ current_data' = data
        /\ pc' = IF Falsy(data) THEN "idle" ELSE "save"
        /\ cycle' = IF Falsy(data) THEN "fetch_failed" ELSE "started"
    /\ last_data' = NoSnapshot
    /\ trades' = <<>>
    /\ filtered_trades' = <<>>
    /\ notified' = FALSE
    /\ notifications' = NoNotifications
    /\ result' = NoResult
    /\ calls' = <<>>
    /\ is_dry_run' = FALSE
    /\ UNCHANGED <<position, scale_ratio, last_json, current_json, served, processed, cycleRest>>

\* step 2, save_positions(current_data, "current.json"): open(filename, 'w')
SavePositionsOpen ==
    /\ pc = "save"
    /\ \E opened \in BOOLEAN :
        /\ current_json' = IF opened THEN Partial(current_data) ELSE current_json
        /\ pc' = IF opened THEN "dump" ELSE "idle"
        /\ cycle' = IF opened THEN cycle ELSE "save_failed"
    /\ UNCHANGED <<current_data, last_data, trades, filtered_trades, notified, notifications, result, calls, is_dry_run, position, scale_ratio, last_json, served, processed, cycleRest>>

\* json.dump and the close of the file, and
\* "if not save_positions(...): return"
SavePositionsDump ==
    /\ pc = "dump"
    /\ \E written \in BOOLEAN :
        /\ current_json' = IF written THEN Complete(current_data) ELSE current_json
        /\ pc' = IF written THEN "load" ELSE "idle"
        /\ cycle' = IF written THEN cycle ELSE "save_failed"
    /\ UNCHANGED <<current_data, last_data, trades, filtered_trades, notified, notifications, result, calls, is_dry_run, position, scale_ratio, last_json, served, processed, cycleRest>>

\* step 3: last_data = load_positions("last.json"), and the first-run test
LoadLast ==
    /\ pc = "load"
    /\ last_data' = load_positions(last_json)
    /\ pc' = IF LoadsNone(last_json) THEN "rotate" ELSE "analyze"
    /\ cycle' = IF LoadsNone(last_json) THEN "first_run" ELSE "compared"
    /\ UNCHANGED <<current_data, trades, filtered_trades, notified, notifications, result, calls, is_dry_run, position, scale_ratio, last_json, current_json, served, processed, cycleRest>>

\* step 4: analyze_position_changes(last_data, current_data, monitored_models)
CycleAnalyze ==
    /\ pc = "analyze"
    /\ \E modelOrder \in Orderings(ModelIds), symbolOrder \in Orderings(Symbols) :
        trades' = analyze_position_changes(last_data, current_data, monitored_models, modelOrder, symbolOrder)
    /\ pc' = IF trades' # <<>> THEN "notify" ELSE "rotate"
    /\ UNCHANGED <<current_data, last_data, filtered_trades, notified, notifications, result, calls, is_dry_run, position, scale_ratio, last_json, current_json, served, cycle, processed, cycleRest>>

\* step 5, "if trades:": the notification of the changes, each channel in
\* its own try/except
CycleNotify ==
    /\ pc = "notify"
    /\ notifications' = [notifications EXCEPT !.trades = Delivery(notifier)]
    /\ notified' = (notifier = "ok")
    /\ pc' = IF NotificationEscapes(notifier) THEN "idle" ELSE "follow"
    /\ UNCHANGED <<current_data, last_data, trades, filtered_trades, result, calls, is_dry_run, position, scale_ratio, last_json, current_json, served, cycle, processed, cycleRest>>

\* _execute_bitget_follow_trades(trades): the enabled test, the whitelist,
\* the scale ratio, execute_trades on a session that behaves as 'behaviour'
\* says, and the report of the result
CycleFollow ==
    /\ pc = "follow"
    /\ \E behaviour \in Behaviours :
        \E e \in {execute_trades(ReadTrades(FilterWhitelisted(trades, config)), get_scale_ratio(config), FALSE, position, behaviour = "ok")} :
           LET enabled == get_enabled(config)
               dry == ConfigManager_is_dry_run(config)
               kept == FilterWhitelisted(trades, config)
               runs == enabled /\ kept # <<>>
               raised == runs /\ ~dry /\ behaviour = "raises"
           IN  /\ filtered_trades' = IF enabled THEN kept ELSE <<>>
               /\ is_dry_run' = (enabled /\ dry)
               /\ scale_ratio' = IF runs THEN get_scale_ratio(config) ELSE scale_ratio
               /\ result' = IF runs /\ dry
                            THEN [returned |-> TRUE, success |-> Len(kept), failed |-> 0]
                            ELSE IF runs /\ ~raised
                            THEN [returned |-> TRUE, success |-> e.success, failed |-> e.failed]
                            ELSE result
               /\ calls' = IF runs /\ ~dry /\ ~raised THEN e.calls ELSE calls
               /\ position' = IF runs /\ ~dry /\ ~raised THEN e.pos ELSE position
               /\ notifications' = IF runs /\ ~raised
                                   THEN [notifications EXCEPT !.bitget = Delivery(notifier)]
                                   ELSE notifications
               /\ pc' = IF raised THEN FollowExcept ELSE "rotate"
    /\ UNCHANGED <<current_data, last_data, trades, notified, last_json, current_json, served, cycle, processed, cycleRest>>

\* rename_current_to_last, first half: "if os.path.exists('current.json'):
\* if os.path.exists('last.json'): os.remove('last.json')"
RenameRemove ==
    /\ pc = "rotate"
    /\ last_json' = IF exists(current_json) /\ exists(last_json) THEN Removed ELSE last_json
    /\ pc' = IF exists(current_json) THEN "rename" ELSE "idle"
    /\ processed' = IF exists(current_json) THEN processed ELSE current_data
    /\ UNCHANGED <<current_data, last_data, trades, filtered_trades, notified, notifications, result, calls, is_dry_run, position, scale_ratio, current_json, served, cycle, cycleRest>>

\* second half: os.rename('current.json', 'last.json'), and the return of
\* _monitor_task
RenameRename ==
    /\ pc = "rename"
    /\ last_json' = current_json
    /\ current_json' = Removed
    /\ pc' = "idle"
    /\ processed' = current_data
    /\ UNCHANGED <<current_data, last_data, trades, filtered_trades, notified, notifications, result, calls, is_dry_run, position, scale_ratio, served, cycle, cycleRest>>

\* the web process answers GET /api/positions from last.json
WebPositions ==
    /\ served' = load_last_json(last_json)
    /\ UNCHANGED <<pc, current_data, last_data, trades, filtered_trades, notified, notifications, result, calls, is_dry_run, position, scale_ratio, last_json, current_json, cycle, processed, cycleRest>>

\* the steps of a run of _monitor_task after its start
CycleStep ==
    \/ SavePositionsOpen
    \/ SavePositionsDump
    \/ LoadLast
    \/ CycleAnalyze
    \/ CycleNotify
    \/ CycleFollow
    \/ RenameRemove
    \/ RenameRename

NextCycle ==
    \/ MonitorTask
    \/ SavePositionsOpen
    \/ SavePositionsDump
    \/ LoadLast
    \/ CycleAnalyze
    \/ CycleNotify
    \/ CycleFollow
    \/ RenameRemove
    \/ RenameRename
    \/ WebPositions

SpecCycle == InitCycle /\ [][NextCycle]_vars

\* the monitoring process is scheduled: a run that has started goes on
SpecCycleLive == SpecCycle /\ WF_vars(CycleStep)

(***************************************************************************)
(* Properties of the monitoring cycle                                      *)
(***************************************************************************)
\* C23: Atomic snapshot replace.  Once a previous snapshot has been
\* persisted, a reader of last.json finds a complete snapshot: the file is
\* never missing after a removal, nor half-written.
C23_AtomicReplace == served.found \notin {"removed", "partial"}

\* during a rotation, between os.remove and os.rename, the web process
\* looked for last.json and answered 404
C23_Witness ==
    /\ pc = "rename"
    /\ last_data # NoSnapshot
    /\ last_json = Removed
    /\ served.status = 404
    /\ served.found = "removed"

\* a run of _monitor_task that compared two snapshots, found changes, and
\* has returned
ComparedAndReturned == pc = "idle" /\ cycle = "compared" /\ trades # <<>>

\* C26: Notification failure is inert.  In a cycle whose notification
\* deliveries failed or raised, the follow step ran as it does otherwise
\* (the whitelisted intents were handed over and each was counted once, as a
\* success or as a failure), and current.json became last.json.
C26_NotificationInert ==
    (ComparedAndReturned /\ notifier # "ok") =>
        /\ notifications.trades = Delivery(notifier)
        /\ last_json = Complete(current_data)
        /\ ~exists(current_json)
        /\ get_enabled(config) => filtered_trades = FilterWhitelisted(trades, config)
        /\ result.returned =>
               /\ notifications.bitget = Delivery(notifier)
               /\ result.success + result.failed = Len(filtered_trades)

\* both notifications of a cycle raised; the cycle counted its intents and
\* rotated the snapshot
C26_Witness ==
    /\ ComparedAndReturned
    /\ notifier = "raises"
    /\ notifications.trades = "raised"
    /\ notifications.bitget = "raised"
    /\ result.returned
    /\ ~is_dry_run
    /\ last_json = Complete(current_data)

\* C27: Cycle liveness.  Every run of _monitor_task that has started comes
\* back to the loop of start_monitoring, whatever the fetch, the save, the
\* exchange session and the notification channels do; from there the next
\* run can start; and a run starts (a snapshot is fetched) only when no
\* other run is under way.
C27_CycleLiveness ==
    /\ [](pc # "idle" => <>(pc = "idle"))
    /\ [](pc = "idle" => ENABLED MonitorTask)
    /\ [][current_data' # current_data => pc = "idle"]_vars

\* a run in which the notifications raised and execute_trades raised has
\* returned to the loop, the snapshot rotated
C27_Witness ==
    /\ ComparedAndReturned
    /\ notifier = "raises"
    /\ get_enabled(config)
    /\ ~ConfigManager_is_dry_run(config)
    /\ result = NoResult
    /\ notifications.bitget = "none"
    /\ last_json = Complete(current_data)

\* the run under way, or the last one, loaded last.json and found no
\* previous snapshot
FirstRun == cycle \in {"first_run", "compared"} /\ last_data = NoSnapshot

FetchFailed == cycle # "none" /\ current_data = NoSnapshot

\* C29: Fetch failure.  A run whose fetch fails or returns empty data ends
\* there: no intent is detected, nothing is routed, no notification is
\* attempted, and it leaves last.json (and current.json) as they were.
C29_FetchFailure ==
    /\ [](FetchFailed =>
              /\ pc = "idle"
              /\ cycle = "fetch_failed"
              /\ trades = <<>>
              /\ filtered_trades = <<>>
              /\ calls = <<>>
              /\ result = NoResult
              /\ notifications = NoNotifications
              /\ ~notified)
    /\ [][FetchFailed' => (last_json' = last_json /\ current_json' = current_json)]_vars

\* a fetch whose conversion failed: the run compared the document without
\* models with the previous snapshot, reported the model as removed, and
\* replaced last.json by that document
C29_Witness ==
    /\ FetchFailed
    /\ pc = "idle"
    /\ cycle = "compared"
    /\ last_data \in CycleSnapshots
    /\ Len(trades) = 1
    /\ trades[1].type = "model_removed"
    /\ notifications.trades # "none"
    /\ last_json = Complete(NoSnapshot)

(***************************************************************************)
(* Properties of the router on the detector's leverage changes             *)
(***************************************************************************)
\* the text the detector gives a change of leverage at an unchanged quantity
LeverageOnly(action) == action \in {AdjustLongLeverage, AdjustShortLeverage}

\* C30: LeverageOnly.  For an intent whose action is the detector's text of
\* a leverage change at an unchanged quantity, the router makes no call to
\* the exchange, whatever quantity, direction and targets the intent
\* carries.
C30_LeverageOnly ==
    (Routed /\ LeverageOnly(trade.action)) => calls = <<>>

\* a leverage-only intent that carries the position's size, 0.01 coins at a
\* ratio of 100%, dry-run off, was routed: no call, counted as failed
C30_Witness ==
    /\ Routed
    /\ trade.action = AdjustLongLeverage
    /\ trade.quantity = 1000
    /\ scale_ratio = 100
    /\ ~dry_run
    /\ calls = <<>>
    /\ counted = "failed"

(***************************************************************************)
(* Properties of the detector's classification                             *)
(***************************************************************************)
\* the indices of the intents of a model
ModelIntents(ts, model_id) == { j \in 1..Len(ts) : ts[j].model_id = model_id }

\* the models the detector looks at
Monitored(model_id) == monitored_models = {} \/ model_id \in monitored_models

SymbolLevel(intent) == intent.type \in {"position_opened", "position_closed", "position_changed"}

\* C31: Model-level diff.  A model in the current snapshot only yields one
\* model_added intent and nothing else; a model in the previous snapshot
\* only yields one model_removed intent and nothing else; symbol-level
\* intents are of models that are in both snapshots.
C31_ModelLevelDiff ==
    Detected =>
        \A model_id \in ModelIds :
            Monitored(model_id) =>
                LET mine == ModelIntents(trades, model_id)
                    in_last == model_id \in DOMAIN last_data
                    in_current == model_id \in DOMAIN current_data
                IN  /\ (~in_last /\ in_current) =>
                           /\ Cardinality(mine) = 1
                           /\ \A j \in mine : trades[j].type = "model_added"
                    /\ (in_last /\ ~in_current) =>
                           /\ Cardinality(mine) = 1
                           /\ \A j \in mine : trades[j].type = "model_removed"
                    /\ (in_last /\ in_current) =>
                           \A j \in mine : SymbolLevel(trades[j])
                    /\ (~in_last /\ ~in_current) => mine = {}

\* modelA, holding two positions, appeared; modelB, holding one, went away:
\* two intents, one model_added and one model_removed
C31_Witness ==
    /\ Detected
    /\ monitored_models = {}
    /\ DOMAIN last_data = {"modelB"}
    /\ DOMAIN current_data = {"modelA"}
    /\ DOMAIN current_data["modelA"] = {"BTC", "ETH"}
    /\ Len(trades) = 2
    /\ \E j \in 1..2 : trades[j].type = "model_added" /\ trades[j].model_id = "modelA"
    /\ \E j \in 1..2 : trades[j].type = "model_removed" /\ trades[j].model_id = "modelB"

(***************************************************************************)
(* The monitor cycle on snapshots that hold records of every shape the     *)
(* converter hands on: flat records (quantity 0) and records whose         *)
(* quantity is null                                                        *)
(***************************************************************************)
\* modelA holds in BTC any of a long, a short, a flat and a null-quantity
\* record, and in ETH a long one; modelB, when present, one BTC record
DetectSnapshots ==
    { d \in UNION { [M -> UNION { [S -> {LongSmall, LongBig, ShortSmall, Flat, Malformed}] : S \in SUBSET Symbols }] : M \in SUBSET ModelIds } :
        /\ "modelA" \in DOMAIN d => ("ETH" \in DOMAIN d["modelA"] => d["modelA"]["ETH"] \in {LongSmall, LongBig})
        /\ "modelB" \in DOMAIN d => (DOMAIN d["modelB"] = {"BTC"} /\ d["modelB"]["BTC"] \in {LongSmall, Malformed}) }

InitDetect ==
    /\ pc = "idle"
    /\ caller = "none"
    /\ op = "none"
    /\ n = 0
    /\ i = 0
    /\ success_count = 0
    /\ failed_count = 0
    /\ dry_run = FALSE
    /\ scale_ratio = 100
    /\ trade = NoTrade
    /\ counted = None
    /\ calls = <<>>
    /\ position = 0
    /\ result = NoResult
    /\ close_result = FALSE
    /\ config = Written([enabled |-> TRUE, scale_ratio |-> 100, whitelist_models |-> {}, dry_run |-> FALSE])
    /\ replaced = default_config
    /\ platforms = TRUE
    /\ received = <<>>
    /\ checked = 0
    /\ models = <<>>
    /\ is_dry_run = FALSE
    /\ results = NoResult
    /\ last_data \in DetectSnapshots
    /\ current_data \in DetectSnapshots
    /\ monitored_models = {}
    /\ trades = <<>>
    /\ filtered_trades = <<>>
    /\ notified = FALSE
    /\ NoDispatcher
    /\ NoCycle
    /\ notifier = "ok"

SpecDetect == InitDetect /\ [][NextMonitor]_vars

\* the symbol is new in the current snapshot of a model held in both, and
\* its record has a number as quantity
Opened(model_id, symbol) ==
    /\ model_id \in DOMAIN last_data
    /\ model_id \in DOMAIN current_data
    /\ symbol \notin DOMAIN last_data[model_id]
    /\ symbol \in DOMAIN current_data[model_id]
    /\ IsNumber(current_data[model_id][symbol])

\* C32: PositionOpened.  For a symbol absent in the previous and present in
\* the current snapshot, the detector emits one position_opened intent: its
\* direction text is buy-long exactly when the current quantity is positive
\* and sell-short exactly when it is negative, its quantity is the absolute
\* current quantity, and its tp and sl are the exit plan's values, 'N/A'
\* standing for a missing one.
C32_PositionOpened ==
    Detected =>
        \A model_id \in ModelIds, symbol \in Symbols :
            (Monitored(model_id) /\ Opened(model_id, symbol)) =>
                LET pos == current_data[model_id][symbol]
                    mine == IntentsFor(trades, model_id, symbol)
                IN  /\ Cardinality(mine) = 1
                    /\ \A j \in mine :
                           /\ trades[j].type = "position_opened"
                           /\ (trades[j].action = BuyLong) <=> (pos.quantity > 0)
                           /\ (trades[j].action = SellShort) <=> (pos.quantity < 0)
                           /\ trades[j].quantity = Abs(pos.quantity)
                           /\ trades[j].tp = PlanTarget(pos.exit_plan.profit_target)
                           /\ trades[j].sl = PlanTarget(pos.exit_plan.stop_loss)

\* a flat record appeared and the detector emitted a sell-short opening of
\* quantity 0 for it
C32_Witness ==
    /\ Detected
    /\ Opened("modelA", "BTC")
    /\ current_data["modelA"]["BTC"] = Flat
    /\ \E j \in 1..Len(trades) :
           /\ trades[j].type = "position_opened"
           /\ trades[j].symbol = "BTC"
           /\ trades[j].action = SellShort
           /\ trades[j].quantity = 0

\* the symbol is held in both snapshots by a model held in both, and both
\* records have a number as quantity
HeldInBoth(model_id, symbol) ==
    /\ model_id \in DOMAIN last_data
    /\ model_id \in DOMAIN current_data
    /\ symbol \in DOMAIN last_data[model_id]
    /\ symbol \in DOMAIN current_data[model_id]
    /\ IsNumber(last_data[model_id][symbol])
    /\ IsNumber(current_data[model_id][symbol])

\* C33: Change classification.  For a symbol held in both snapshots the
\* detector emits nothing when quantity and leverage are unchanged, and
\* otherwise one position_changed intent: with delta = current - previous
\* quantity, its action is an add when delta > 0, a reduce when delta < 0, a
\* leverage change when delta = 0; its direction is long when the current
\* quantity is positive and short when it is negative; its quantity_change
\* is |delta|.
C33_ChangeClassification ==
    Detected =>
        \A model_id \in ModelIds, symbol \in Symbols :
            (Monitored(model_id) /\ HeldInBoth(model_id, symbol)) =>
                LET last_pos == last_data[model_id][symbol]
                    current_pos == current_data[model_id][symbol]
                    delta == current_pos.quantity - last_pos.quantity
                    mine == IntentsFor(trades, model_id, symbol)
                IN  IF delta = 0 /\ last_pos.leverage = current_pos.leverage
                    THEN mine = {}
                    ELSE /\ Cardinality(mine) = 1
                         /\ \A j \in mine :
                                /\ trades[j].type = "position_changed"
                                /\ is_add(trades[j].action) <=> (delta > 0)
                                /\ is_reduce(trades[j].action) <=> (delta < 0)
                                /\ LeverageOnly(trades[j].action) <=> (delta = 0)
                                /\ Has("duo", trades[j].action) <=> (current_pos.quantity > 0)
                                /\ Has("kong", trades[j].action) <=> (current_pos.quantity < 0)
                                /\ trades[j].quantity_change = Abs(delta)

\* a long position went to a flat record: the detector emitted a reduce of a
\* short position
C33_Witness ==
    /\ Detected
    /\ HeldInBoth("modelA", "BTC")
    /\ last_data["modelA"]["BTC"] = LongSmall
    /\ current_data["modelA"]["BTC"] = Flat
    /\ \E j \in 1..Len(trades) :
           /\ trades[j].type = "position_changed"
           /\ trades[j].symbol = "BTC"
           /\ trades[j].action = ReduceSellShort
           /\ trades[j].quantity_change = MinTradable

\* the symbols of a model whose record is malformed in one of the snapshots
MalformedSymbols(model_id) ==
    { symbol \in Symbols :
        \/ /\ model_id \in DOMAIN last_data
           /\ symbol \in DOMAIN last_data[model_id]
           /\ ~IsNumber(last_data[model_id][symbol])
        \/ /\ model_id \in DOMAIN current_data
           /\ symbol \in DOMAIN current_data[model_id]
           /\ ~IsNumber(current_data[model_id][symbol]) }

\* the snapshot without the records of those symbols
WithoutMalformed(data) ==
    [model_id \in DOMAIN data |->
        [symbol \in DOMAIN data[model_id] \ MalformedSymbols(model_id) |->
            data[model_id][symbol]]]

\* C34: Malformed record isolation.  When the record of a symbol is
\* malformed, the detector returns what it returns on the two snapshots
\* without the records of that symbol: no intent for the symbol, and the
\* intents of every other symbol and model untouched.
C34_MalformedIsolation ==
    Detected =>
        \E modelOrder \in Orderings(ModelIds), symbolOrder \in Orderings(Symbols) :
            trades = analyze_position_changes(WithoutMalformed(last_data), WithoutMalformed(current_data), monitored_models, modelOrder, symbolOrder)

\* modelA's BTC record became malformed while its ETH position grew, and
\* modelB appeared: an add for ETH and a model_added, nothing for BTC
C34_Witness ==
    /\ Detected
    /\ MalformedSymbols("modelA") = {"BTC"}
    /\ "modelA" \in DOMAIN last_data
    /\ "modelA" \in DOMAIN current_data
    /\ "modelB" \in DOMAIN current_data
    /\ "modelB" \notin DOMAIN last_data
    /\ "BTC" \in DOMAIN last_data["modelA"]
    /\ IsNumber(last_data["modelA"]["BTC"])
    /\ Len(trades) = 2
    /\ \E j \in 1..2 : trades[j].type = "position_changed" /\ trades[j].symbol = "ETH" /\ trades[j].action = AddBuyLong
    /\ \E j \in 1..2 : trades[j].type = "model_added"

\* the signed quantity an intent leads to when its action, side and
\* quantity_change are applied to the signed quantity before it
ApplyIntent(intent) ==
    LET side == IF Has("duo", intent.action) THEN 1 ELSE 0 - 1
        step == IF is_add(intent.action) THEN intent.quantity_change
                ELSE IF is_reduce(intent.action) THEN 0 - intent.quantity_change
                ELSE 0
    IN  intent.last_quantity + side * step

\* C35: Intent faithfulness.  The action of every position_changed intent is
\* an add exactly when the absolute size of the position grew and a reduce
\* exactly when it shrank, and applying the action, the side and the
\* quantity_change to the previous quantity gives the current quantity.
C35_IntentFaithful ==
    Detected =>
        \A j \in 1..Len(trades) :
            trades[j].type = "position_changed"
            => /\ is_add(trades[j].action)
                      <=> Abs(trades[j].current_quantity) > Abs(trades[j].last_quantity)
               /\ is_reduce(trades[j].action)
                      <=> Abs(trades[j].current_quantity) < Abs(trades[j].last_quantity)
               /\ ApplyIntent(trades[j]) = trades[j].current_quantity

\* the detector returned an intent for a short position that grew, labelled
\* a reduce, whose application to the previous quantity misses the current
C35_Witness ==
    /\ Detected
    /\ \E j \in 1..Len(trades) :
           /\ trades[j].type = "position_changed"
           /\ trades[j].last_quantity < 0
           /\ trades[j].current_quantity < trades[j].last_quantity
           /\ is_reduce(trades[j].action)
           /\ ApplyIntent(trades[j]) # trades[j].current_quantity

(***************************************************************************)
(* Direction resolution in the router                                      *)
(***************************************************************************)
\* "is_short = direction == 'short' or '空' in action"
is_short(t) == DirectionOf(t) = "short" \/ Has("kong", t.action)

\* C36: Direction resolution in the router.  The long and the short
\* determination of a routed intent exclude each other, and an intent whose
\* action text denotes short is routed with the orders of the short side (a
\* reduce or a close buys, an add or an open sells), also when the intent
\* has no direction field.
C36_DirectionResolution ==
    (Routed /\ calls # <<>>)
    => /\ ~(is_long(trade) /\ is_short(trade))
       /\ (TextDirection(trade.action) = "short" /\ trade.direction # "long")
          => /\ (is_close(trade.action) \/ is_reduce(trade.action))
                => calls[1].side = "buy"
             /\ (~is_close(trade.action) /\ (is_add(trade.action) \/ is_open(trade.action)))
                => calls[1].side = "sell"

\* a reduce of a short without direction field was routed: both
\* determinations are true and the order sells
C36_Witness ==
    /\ Routed
    /\ trade.action = ReduceShort
    /\ trade.direction = None
    /\ is_long(trade)
    /\ is_short(trade)
    /\ Len(calls) = 1
    /\ calls[1].side = "sell"
    /\ calls[1].reduceOnly

(***************************************************************************)
(* The per-platform results of a follow cycle                              *)
(***************************************************************************)
\* C37: Faithful result reporting.  The entry recorded for a platform whose
\* executor returned has the success and failed counts the executor
\* counted, for the multi-mode dispatcher as for the single trader; a
\* platform whose orders succeeded is never recorded as wholly failed.
C37_FaithfulResults ==
    (CycleDone /\ ~is_dry_run)
    => /\ (enabled_platforms.multi /\ multi_return.returned)
          => /\ platform_results.multi.success = multi_return.total_success
             /\ platform_results.multi.failed = multi_return.total_failed
             /\ ~platform_results.multi.error
       /\ (enabled_platforms.single /\ ~SingleRaised)
          => /\ platform_results.single.success = result.success
             /\ platform_results.single.failed = result.failed
             /\ ~platform_results.single.error

\* the dispatcher returned totals with a success, and the platform's entry
\* is the wholly failed one
C37_Witness ==
    /\ CycleDone
    /\ ~is_dry_run
    /\ enabled_platforms.multi
    /\ multi_return.returned
    /\ multi_return.total_success > 0
    /\ platform_results.multi = PlatformFailed(Len(multi_trades))
    /\ platform_results.multi.success = 0

(***************************************************************************)
(* The configuration a follow cycle decides against                        *)
(***************************************************************************)
\* the documents the configuration file holds or held last: the saved one
\* and, while a save is under way, the one being replaced
OnFile == {config.doc, replaced}

\* C38: Consistent configuration within a cycle.  While the web UI saves the
\* configuration file, the decisions of a running cycle are taken against
\* one configuration value that was on file: the dry-run decision is the
\* dry_run of a document on file, an intent is kept only if a document on
\* file with that same dry_run value lets its model through, and the scale
\* ratio handed to the executor is the one of such a document.  So a save
\* never lets a non-whitelisted model's intent through and never turns a
\* dry-run cycle into a live one.
C38_ConsistentConfig ==
    [][/\ (pc = "follow" /\ pc' = "filter")
          => \E doc \in OnFile : is_dry_run' = doc.dry_run
       /\ (pc = "filter" /\ Len(models') > Len(models))
          => \E doc \in OnFile :
                 /\ Whitelists(doc, models'[Len(models')])
                 /\ doc.dry_run = is_dry_run
       /\ (pc = "platform" /\ pc' # "platform")
          => \E doc \in OnFile :
                 /\ scale_ratio' = doc.scale_ratio
                 /\ doc.dry_run = is_dry_run
                 /\ \A k \in 1..Len(models) : Whitelists(doc, models[k])]_vars

\* a cycle runs while the file is being saved: the document replaced and the
\* document written both ask for a dry run and both whitelist modelA only,
\* yet the cycle is live and has kept an intent of modelB
C38_Witness ==
    /\ pc = "filter"
    /\ caller = "follow"
    /\ ~config.complete
    /\ config.doc.dry_run
    /\ replaced.dry_run
    /\ config.doc.whitelist_models = {"modelA"}
    /\ replaced.whitelist_models = {"modelA"}
    /\ ~is_dry_run
    /\ \E k \in 1..Len(models) : models[k] = "modelB"

(***************************************************************************)
(* The single-trade cap                                                    *)
(***************************************************************************)
\* "max_single_trade_amount": 1000 of default_config, in USDT; the
\* configuration file of the router's state machine is the default one
max_single_trade_amount == 1000

\* prices of a coin the market can have when an order is submitted, in
\* thousands of USDT
MarketPrices == {50, 120}

\* the notional amount of a submitted order at a price, in 1e-4 USDT (the
\* order's amount is in 1e-7 coins)
Notional(order, price) == order.amount * price

\* C39: Single-trade cap.  Whatever the market price, no order the router
\* submits has a notional amount above max_single_trade_amount (1 USDT is
\* 10000 units of 1e-4 USDT).
C39_SingleTradeCap ==
    Routed =>
        \A price \in MarketPrices, k \in 1..Len(calls) :
            IsEntry(calls[k])
            => Notional(calls[k], price) <= max_single_trade_amount * 10000

\* an open of 0.01 coins was routed at full scale and its order accepted:
\* at 120000 USDT a coin the order is worth 1200 USDT
C39_Witness ==
    /\ Routed
    /\ ~dry_run
    /\ is_open(trade.action)
    /\ trade.quantity = 1000
    /\ scale_ratio = 100
    /\ calls # <<>>
    /\ IsEntry(calls[1])
    /\ calls[1].amount = 100000
    /\ Notional(calls[1], 120) > max_single_trade_amount * 10000

(***************************************************************************)
(* The cycle with a snapshot rotation that can fail.  rename_current_to_   *)
(* last catches the exception of os.remove or os.rename and returns False; *)
(* _monitor_task does not read what it returns.                            *)
(***************************************************************************)
\* os.remove('last.json') raises: both files stay as they are
RenameRemoveRaises ==
    /\ pc = "rotate"
    /\ exists(current_json)
    /\ exists(last_json)
    /\ pc' = "idle"
    /\ processed' = current_data
    /\ UNCHANGED <<current_data, last_data, trades, filtered_trades, notified, notifications, result, calls, is_dry_run, position, scale_ratio, last_json, current_json, served, cycle, cycleRest>>

\* os.rename('current.json', 'last.json') raises, after last.json was
\* removed
RenameRenameRaises ==
    /\ pc = "rename"
    /\ pc' = "idle"
    /\ processed' = current_data
    /\ UNCHANGED <<current_data, last_data, trades, filtered_trades, notified, notifications, result, calls, is_dry_run, position, scale_ratio, last_json, current_json, served, cycle, cycleRest>>

NextRotate ==
    \/ MonitorTask
    \/ SavePositionsOpen
    \/ SavePositionsDump
    \/ LoadLast
    \/ CycleAnalyze
    \/ CycleNotify
    \/ CycleFollow
    \/ RenameRemove
    \/ RenameRename
    \/ RenameRemoveRaises
    \/ RenameRenameRaises

SpecRotate == InitCycle /\ [][NextRotate]_vars

\* C40: Exactly-once detection across cycles.  A cycle that compares does
\* so against the snapshot the last finished cycle was made for, and a
\* cycle is a first run only when no cycle finished before it: the change
\* between two consecutive snapshots is detected and handed on by one
\* cycle, is not skipped and is not handed on again, also when the
\* rotation of the snapshot files fails.
C40_ExactlyOnce ==
    /\ (pc # "idle" /\ cycle = "compared") => last_data = processed
    /\ (pc # "idle" /\ cycle = "first_run") => processed = NoSnapshot

\* the rotation failed in the last cycle: this cycle fetched the snapshot
\* that cycle had fetched, and hands a change on again
C40_Witness ==
    /\ pc = "follow"
    /\ cycle = "compared"
    /\ processed = current_data
    /\ last_data # processed
    /\ last_json = Complete(last_data)
    /\ trades # <<>>

(***************************************************************************)
(* The cycle with a fetch whose conversion fails.  The except clause of    *)
(* _convert_to_legacy_format returns a document with 'positions': [],      *)
(* fetch_time, timestamp and raw_data: a dict that is not empty, so        *)
(* fetch_positions returns it and "if not current_data" lets it through.   *)
(***************************************************************************)
\* _monitor_task, step 1, when _convert_to_legacy_format raises (a model's
\* 'positions' or one of its records is no dict)
MonitorTaskConverted ==
    /\ pc = "idle"
    /\ current_data' = NoSnapshot
    /\ pc' = "save"
    /\ cycle' = "started"
    /\ last_data' = NoSnapshot
    /\ trades' = <<>>
    /\ filtered_trades' = <<>>
    /\ notified' = FALSE
    /\ notifications' = NoNotifications
    /\ result' = NoResult
    /\ calls' = <<>>
    /\ is_dry_run' = FALSE
    /\ UNCHANGED <<position, scale_ratio, last_json, current_json, served, processed, cycleRest>>

NextConvert ==
    \/ MonitorTask
    \/ MonitorTaskConverted
    \/ SavePositionsOpen
    \/ SavePositionsDump
    \/ LoadLast
    \/ CycleAnalyze
    \/ CycleNotify
    \/ CycleFollow
    \/ RenameRemove
    \/ RenameRename

SpecConvert == InitCycle /\ [][NextConvert]_vars
====
